---------------------------- MODULE Spec2Model ----------------------------
(***************************************************************************)
(* Model of the bitcoin peer-to-peer handshake: the wire codec of the      *)
(* `bitcoin` crate (message_type.rs, verack.rs, version.rs, lib.rs) and    *)
(* the two handshake state machines (listener/mod.rs, sender/mod.rs) as    *)
(* they are spawned by main.rs.                                            *)
(*                                                                         *)
(* Representation of values.  A byte is a number in 0..255 and a byte      *)
(* string is a sequence of bytes.  TLC's integers are 32 bits wide, so a   *)
(* u64 / i64 field is held as the 8 base-256 digits of its bit pattern,    *)
(* most significant digit first; an i32 field is held as an integer.  A    *)
(* fallible function returns [ok |-> TRUE, val |-> v] or                   *)
(* [ok |-> FALSE, err |-> e].                                              *)
(***************************************************************************)
EXTENDS Integers, Sequences, FiniteSets, TLC

Ok(v) == [ok |-> TRUE, val |-> v]

Err(e) == [ok |-> FALSE, err |-> e]

Byte == 0..255

Zeros(n) == [i \in 1..n |-> 0]

Repeat(b, n) == [i \in 1..n |-> b]

Reverse(s) == [i \in 1..Len(s) |-> s[Len(s) + 1 - i]]

\* bytes s[from+1 .. from+n] (a cursor at offset `from` reading n bytes)
Slice(s, from, n) == [i \in 1..n |-> s[from + i]]

(***************************************************************************)
(* message_type.rs                                                         *)
(***************************************************************************)

\* MessageType::SIZE
MessageType_SIZE == 12

\* the enum's variants
MessageType ==
  {"Version", "VerAck", "Ping", "Addr", "GetData", "Tx", "Block", "GetBlocks",
   "GetHeaders", "Headers", "Reject", "MemPool", "FeeFilter", "SendHeaders",
   "SendCmpct", "WtxIdRelay", "SendAddrV2"}

\* strum's Display / AsRefStr: the ASCII bytes of #[strum(serialize = "...")]
to_string(ty) ==
  CASE ty = "Version"     -> <<118, 101, 114, 115, 105, 111, 110>>
    [] ty = "VerAck"      -> <<118, 101, 114, 97, 99, 107>>
    [] ty = "Ping"        -> <<112, 105, 110, 103>>
    [] ty = "Addr"        -> <<97, 100, 100, 114>>
    [] ty = "GetData"     -> <<103, 101, 116, 100, 97, 116, 97>>
    [] ty = "Tx"          -> <<116, 120>>
    [] ty = "Block"       -> <<98, 108, 111, 99, 107>>
    [] ty = "GetBlocks"   -> <<103, 101, 116, 98, 108, 111, 99, 107, 115>>
    [] ty = "GetHeaders"  -> <<103, 101, 116, 104, 101, 97, 100, 101, 114, 115>>
    [] ty = "Headers"     -> <<104, 101, 97, 100, 101, 114, 115>>
    [] ty = "Reject"      -> <<114, 101, 106, 101, 99, 116>>
    [] ty = "MemPool"     -> <<109, 101, 109, 112, 111, 111, 108>>
    [] ty = "FeeFilter"   -> <<102, 101, 101, 102, 105, 108, 116, 101, 114>>
    [] ty = "SendHeaders" -> <<115, 101, 110, 100, 104, 101, 97, 100, 101, 114, 115>>
    [] ty = "SendCmpct"   -> <<115, 101, 110, 100, 99, 109, 112, 99, 116>>
    [] ty = "WtxIdRelay"  -> <<119, 116, 120, 105, 100, 114, 101, 108, 97, 121>>
    [] ty = "SendAddrV2"  -> <<115, 101, 110, 100, 97, 100, 100, 114, 118, 50>>

\* strum's EnumString (str::parse::<MessageType>): an exact match of a name
parse_MessageType(str) ==
  IF \E ty \in MessageType : to_string(ty) = str
    THEN Ok(CHOOSE ty \in MessageType : to_string(ty) = str)
    ELSE Err("VariantNotFound")

\* a name written as it is, without the zero bytes behind it
serialize_unpadded(result) == Ok(result)

\* serialize from `let mut result = self.to_string().into_bytes()` on: the
\* check of the name's length and the zero bytes appended
serialize_name(result) ==
  IF Len(result) > MessageType_SIZE
    THEN Err("MessageTypeTooLong")
    ELSE Ok(result \o Zeros(MessageType_SIZE - Len(result)))

MessageType_serialize(ty) == serialize_name(to_string(ty))

\* data.iter().rev().take_while(|&&byte| byte == 0).count()
RECURSIVE zeroes_count(_)
zeroes_count(data) ==
  IF data = <<>> \/ data[Len(data)] # 0
    THEN 0
    ELSE 1 + zeroes_count(SubSeq(data, 1, Len(data) - 1))

\* String::from_utf8_lossy leaves valid UTF-8 as it is and puts U+FFFD in the
\* place of every invalid sequence; the variant names are ASCII, so a string
\* holding U+FFFD parses to no variant, as the raw invalid bytes do here.
MessageType_deserialize(data) ==
  IF Len(data) > MessageType_SIZE
    THEN Err("MessageTypeTooLong")
    ELSE LET version == SubSeq(data, 1, Len(data) - zeroes_count(data))
             map_err(parsed) == IF parsed.ok THEN parsed ELSE Err("UnknownType")
         IN  map_err(parse_MessageType(version))

(***************************************************************************)
(* verack.rs                                                               *)
(***************************************************************************)

VerAck == [kind |-> "VerAck"]

VerAck_serialize(verack) == Ok(<<>>)

VerAck_deserialize(data) == Ok(VerAck)

(***************************************************************************)
(* std::net (the part version.rs uses)                                     *)
(***************************************************************************)

\* SocketAddr::V4(ip, port) and SocketAddr::V6(ip, port, flowinfo, scope_id);
\* a V4 address has no flowinfo / scope_id and keeps 0 there.
SocketAddr_new(fam, ip, port) ==
  [fam |-> fam, ip |-> ip, port |-> port, flowinfo |-> 0, scope_id |-> 0]

\* Ipv4Addr::to_ipv6_mapped: ::ffff:a.b.c.d
to_ipv6_mapped(x) == Zeros(10) \o <<255, 255>> \o x

\* Ipv6Addr::to_ipv4_mapped: Some(a.b.c.d) for ::ffff:a.b.c.d, else None
to_ipv4_mapped(x) ==
  IF SubSeq(x, 1, 10) = Zeros(10) /\ x[11] = 255 /\ x[12] = 255
    THEN Ok(SubSeq(x, 13, 16))
    ELSE Err("None")

\* String::from_utf8 succeeds (core::str::from_utf8's validation): the
\* string starts with a lead byte, and every lead byte is followed by the
\* continuation bytes of its sequence and then by the next lead byte
utf8_valid(b) ==
  LET n       == Len(b)
      cont(i) == i <= n /\ b[i] >= 128 /\ b[i] <= 191
      in(i, lo, hi) == i <= n /\ b[i] >= lo /\ b[i] <= hi
      next(i) == i > n \/ ~cont(i)
      seq(i)  ==
        IF b[i] <= 127 THEN next(i + 1)
        ELSE IF b[i] >= 194 /\ b[i] <= 223 THEN cont(i + 1) /\ next(i + 2)
        ELSE IF b[i] = 224 THEN in(i + 1, 160, 191) /\ cont(i + 2) /\ next(i + 3)
        ELSE IF (b[i] >= 225 /\ b[i] <= 236) \/ b[i] = 238 \/ b[i] = 239
          THEN cont(i + 1) /\ cont(i + 2) /\ next(i + 3)
        ELSE IF b[i] = 237 THEN in(i + 1, 128, 159) /\ cont(i + 2) /\ next(i + 3)
        ELSE IF b[i] = 240
          THEN in(i + 1, 144, 191) /\ cont(i + 2) /\ cont(i + 3) /\ next(i + 4)
        ELSE IF b[i] >= 241 /\ b[i] <= 243
          THEN cont(i + 1) /\ cont(i + 2) /\ cont(i + 3) /\ next(i + 4)
        ELSE IF b[i] = 244
          THEN in(i + 1, 128, 143) /\ cont(i + 2) /\ cont(i + 3) /\ next(i + 4)
        ELSE FALSE
  IN  /\ n > 0 => ~cont(1)
      /\ \A i \in 1..n : ~cont(i) => seq(i)

(***************************************************************************)
(* byteorder                                                               *)
(***************************************************************************)

\* write_i32::<LittleEndian>: the two's complement of v, low byte first
write_i32_le(v) ==
  LET u   == IF v >= 0 THEN v ELSE (v + 2147483647) + 1
      top == IF v >= 0 THEN 0 ELSE 128
  IN  <<u % 256, (u \div 256) % 256, (u \div 65536) % 256,
        (u \div 16777216) + top>>

\* read_i32::<LittleEndian>
read_i32_le(b) ==
  LET u == b[1] + 256 * b[2] + 65536 * b[3] + 16777216 * (b[4] % 128)
  IN  IF b[4] >= 128 THEN (u - 2147483647) - 1 ELSE u

\* write_u64 / write_i64::<LittleEndian>: a value is its digits, high first
write_u64_le(digits) == Reverse(digits)

\* read_u64 / read_i64::<LittleEndian>
read_u64_le(b) == Reverse(b)

\* write_u128::<BigEndian>(u128::from_be_bytes(octets)): the octets in order
write_u128_be(octets) == octets

\* read_u128::<BigEndian>()?.into(): the Ipv6Addr of the 16 bytes in order
read_u128_be(b) == b

\* the port written low byte first
write_u16_le(p) == <<p % 256, p \div 256>>

\* write_u16::<BigEndian>
write_u16_be(p) == <<p \div 256, p % 256>>

\* read_u16::<BigEndian>
read_u16_be(b) == 256 * b[1] + b[2]

(***************************************************************************)
(* version.rs                                                              *)
(***************************************************************************)

\* Version::SIZE: the capacity serialize reserves, and the length
\* test_version expects of a Version with the default user agent
Version_SIZE == 100

\* u8::MAX, the bound of u8::try_from(self.user_agent().len())
U8_MAX == 255

\* segments[0..5] == [0, 0, 0, 0, 0] && segments[5] == 0xffff
is_ipv4_mapped_ipv6(addr) ==
  SubSeq(addr, 1, 10) = Zeros(10) /\ addr[11] = 255 /\ addr[12] = 255

\* the octets of an address as it is, 4 of them for an IPv4 address
ip_octets_unmapped(addr) == addr.ip

\* match addr.ip() { IpAddr::V4(x) => x.to_ipv6_mapped(), IpAddr::V6(x) => x }
ip_octets(addr) == IF addr.fam = "V4" THEN to_ipv6_mapped(addr.ip) ELSE addr.ip

\* a serialize that writes the low byte of the user agent's length whatever
\* the length
Version_serialize_wrapping(self) ==
  Ok(   write_i32_le(self.protocol_version)
     \o write_u64_le(self.services)
     \o write_u64_le(self.timestamp)
     \o write_u64_le(self.receiver_services)
     \o write_u128_be(ip_octets(self.receiver_address))
     \o write_u16_be(self.receiver_address.port)
     \o write_u64_le(self.sender_services)
     \o write_u128_be(ip_octets(self.sender_address))
     \o write_u16_be(self.sender_address.port)
     \o write_u64_le(self.nonce)
     \o <<Len(self.user_agent) % 256>>
     \o self.user_agent
     \o write_i32_le(self.start_height)
     \o <<IF self.relay THEN 1 ELSE 0>>)

Version_serialize(self) ==
  IF Len(self.user_agent) > U8_MAX
    THEN Err("InvalidUserAgentLength")
    ELSE Ok(   write_i32_le(self.protocol_version)
            \o write_u64_le(self.services)
            \o write_u64_le(self.timestamp)
            \o write_u64_le(self.receiver_services)
            \o write_u128_be(ip_octets(self.receiver_address))
            \o write_u16_be(self.receiver_address.port)
            \o write_u64_le(self.sender_services)
            \o write_u128_be(ip_octets(self.sender_address))
            \o write_u16_be(self.sender_address.port)
            \o write_u64_le(self.nonce)
            \o <<Len(self.user_agent)>>
            \o self.user_agent
            \o write_i32_le(self.start_height)
            \o <<IF self.relay THEN 1 ELSE 0>>)

\* the address read at offset `at`: 16 bytes of IP, then 2 bytes of port
read_address(data, at) ==
  LET ip6  == read_u128_be(Slice(data, at, 16))
      port == read_u16_be(Slice(data, at + 16, 2))
  IN  IF is_ipv4_mapped_ipv6(ip6)
        THEN LET ip4 == to_ipv4_mapped(ip6)
             IN  IF ip4.ok THEN Ok(SocketAddr_new("V4", ip4.val, port))
                           ELSE Err("FailedToMapToIpv4")
        ELSE Ok(SocketAddr_new("V6", ip6, port))

\* offset of the user-agent length byte: 4+8+8 + (8+16+2) + (8+16+2) + 8
UA_OFFSET == 80

Version_deserialize(data) ==
  LET n == Len(data)
  IN  IF n < UA_OFFSET + 1 THEN
        \* a short read of a fixed field before the user agent; the mapped
        \* check of an address read in full comes before a later short read
        IF n >= 46 /\ ~read_address(data, 28).ok THEN Err("FailedToMapToIpv4")
        ELSE IF n >= 72 /\ ~read_address(data, 54).ok THEN Err("FailedToMapToIpv4")
        ELSE Err("IoError")
      ELSE
        LET user_agent_len == data[UA_OFFSET + 1]
            tail           == UA_OFFSET + 1 + user_agent_len
            fields(receiver_address, sender_address, user_agent_bytes) ==
              IF ~receiver_address.ok THEN receiver_address
              ELSE IF ~sender_address.ok THEN sender_address
              ELSE IF n < tail THEN Err("IoError")
              ELSE IF ~utf8_valid(user_agent_bytes)
                THEN Err("FailedToParseUserAgent")
              ELSE IF n < tail + 5 THEN Err("IoError")
              ELSE Ok([protocol_version  |-> read_i32_le(Slice(data, 0, 4)),
                       services          |-> read_u64_le(Slice(data, 4, 8)),
                       timestamp         |-> read_u64_le(Slice(data, 12, 8)),
                       receiver_services |-> read_u64_le(Slice(data, 20, 8)),
                       receiver_address  |-> receiver_address.val,
                       sender_services   |-> read_u64_le(Slice(data, 46, 8)),
                       sender_address    |-> sender_address.val,
                       nonce             |-> read_u64_le(Slice(data, 72, 8)),
                       user_agent        |-> user_agent_bytes,
                       start_height      |-> read_i32_le(Slice(data, tail, 4)),
                       relay             |-> data[tail + 5] # 0])
        IN  fields(read_address(data, 28), read_address(data, 54),
                   Slice(data, UA_OFFSET + 1, user_agent_len))

(***************************************************************************)
(* Addresses, clock and random source of a run                             *)
(***************************************************************************)

\* stream.local_addr() of an accepted stream: "127.0.0.1:{port}"
LISTEN_ADDR == SocketAddr_new("V4", <<127, 0, 0, 1>>, 8333)

\* stream.local_addr() of an outbound stream
SENDER_LOCAL_ADDR == SocketAddr_new("V4", <<127, 0, 0, 1>>, 50000)

\* the peer addresses streams are accepted from (stream.peer_addr())
Addrs == {"10.0.0.1:40001", "[2001:db8::2]:40002"}

\* get_socket_addresses(): the addresses sender::run is spawned for
Targets == {"127.0.0.1:8333", "[2001:db8::9]:18333"}

PeerA == "10.0.0.1:40001"

PeerB == "[2001:db8::2]:40002"

TargetA == "127.0.0.1:8333"

\* the SocketAddr an address is written as (addr.to_string() read backwards)
socket_addr(name) ==
  CASE name = "10.0.0.1:40001" -> SocketAddr_new("V4", <<10, 0, 0, 1>>, 40001)
    [] name = "[2001:db8::2]:40002" ->
         SocketAddr_new("V6", <<32, 1, 13, 184>> \o Zeros(11) \o <<2>>, 40002)
    [] name = "127.0.0.1:8333" -> SocketAddr_new("V4", <<127, 0, 0, 1>>, 8333)
    [] name = "[2001:db8::9]:18333" ->
         SocketAddr_new("V6", <<32, 1, 13, 184>> \o Zeros(11) \o <<9>>, 18333)

\* Utc::now().timestamp(), as the 8 digits of an i64
Utc_now == {<<0, 0, 0, 0, 101, 75, 209, 0>>}

\* random::<u64>()
random_u64 == {<<255, 2, 3, 4, 5, 6, 7, 128>>}

\* "Satoshi:0.21.0"
DEFAULT_USER_AGENT == <<83, 97, 116, 111, 115, 104, 105, 58, 48, 46, 50, 49, 46, 48>>

U64_ONE == <<0, 0, 0, 0, 0, 0, 0, 1>>

\* VersionBuilder::default().receiver_address(r).sender_address(s).build()
VersionBuilder_build(receiver, sender, now, rnd) ==
  [protocol_version  |-> 70016,
   services          |-> U64_ONE,
   timestamp         |-> now,
   receiver_services |-> U64_ONE,
   receiver_address  |-> receiver,
   sender_services   |-> U64_ONE,
   sender_address    |-> sender,
   nonce             |-> rnd,
   user_agent        |-> DEFAULT_USER_AGENT,
   start_height      |-> 0,
   relay             |-> FALSE]

\* the version a remote node announces
REMOTE_VERSION ==
  [protocol_version  |-> 70015,
   services          |-> <<0, 0, 0, 0, 0, 0, 4, 9>>,
   timestamp         |-> <<0, 0, 0, 0, 101, 75, 209, 7>>,
   receiver_services |-> U64_ONE,
   receiver_address  |-> LISTEN_ADDR,
   sender_services   |-> <<0, 0, 0, 0, 0, 0, 4, 9>>,
   sender_address    |-> socket_addr("[2001:db8::2]:40002"),
   nonce             |-> <<9, 8, 7, 6, 5, 4, 3, 2>>,
   user_agent        |-> <<47, 83, 58, 50, 53, 47>>,
   start_height      |-> 800000,
   relay             |-> TRUE]

\* the payload a remote node sends under a command: a version, a ping's
\* nonce, nothing for the rest
remote_payload(ty) ==
  IF ty = "Version" THEN Version_serialize(REMOTE_VERSION).val
  ELSE IF ty = "Ping" THEN <<1, 2, 3, 4, 5, 6, 7, 8>>
  ELSE <<>>

(***************************************************************************)
(* lib.rs                                                                  *)
(***************************************************************************)

MAGIC_BYTES_MAINNET == <<249, 190, 180, 217>>

MAGIC_BYTES_TESTNET == <<11, 17, 9, 7>>

MAGIC_BYTES_LENGTH == 4

CHECKSUM_LENGTH == 4

\* Message::BASE_SIZE
BASE_SIZE == 24

\* a * b mod 2^16 for a, b < 2^16, without leaving 32 bits
mulmod(a, b) == ((a % 256) * b + (((a \div 256) * b) % 256) * 256) % 65536

\* the lane of x \o y from the lanes l of x and r of y
join(l, r) == <<(mulmod(l[1], r[2]) + r[1]) % 65536, mulmod(l[2], r[2])>>

RECURSIVE lane(_, _)
\* <<v, p>> with v the value h <- (h * mul + x) mod 2^16 reaches from h = 0
\* over the input in order, and p = mul^Len(input) mod 2^16 (the input is
\* halved to keep the evaluation shallow)
lane(input, mul) ==
  IF input = <<>> THEN <<0, 1>>
  ELSE IF Len(input) = 1 THEN <<input[1] % 65536, mul>>
  ELSE join(lane(SubSeq(input, 1, Len(input) \div 2), mul),
            lane(SubSeq(input, Len(input) \div 2 + 1, Len(input)), mul))

\* One 16-bit lane of the digest: h <- (h * mul + x) mod 2^16 for each x of
\* the input in order, from h
digest(input, mul, h) ==
  LET d == lane(input, mul)
  IN  (mulmod(h, d[2]) + d[1]) % 65536

\* Sha256::new(); update(input); finalize().  SHA-256 itself is not computed:
\* its place is taken by a deterministic digest of two 16-bit words with the
\* properties the codec relies on.  Every input has a digest, equal inputs
\* have equal digests, and two inputs of equal length that differ in one
\* byte have different digests, also after hashing the digest again (both
\* multipliers are odd), which SHA-256 gives for all practical purposes.
Sha256(input) == <<digest(input, 33, 5381), digest(input, 31, 7)>>

\* a checksum that does not depend on the payload
build_checksum_fixed(payload) == Zeros(CHECKSUM_LENGTH)

\* second_hash[..CHECKSUM_LENGTH] of the hash of the hash of the payload
build_checksum(payload) ==
  LET first_hash == Sha256(payload)
      truncated(second_hash) ==
        SubSeq(<<second_hash[1] \div 256, second_hash[1] % 256,
                 second_hash[2] \div 256, second_hash[2] % 256>>,
               1, CHECKSUM_LENGTH)
  IN  truncated(Sha256(first_hash))

\* the payloads that go over the streams of the handshake: what a remote
\* node sends, a payload altered on the way, and the versions the two roles
\* build
StreamPayloads ==
  {remote_payload(ty) : ty \in {"Version", "Ping", "VerAck"}}
    \cup {[remote_payload("Version") EXCEPT ![1] = (@ + 1) % 256]}
    \cup {Version_serialize(
             VersionBuilder_build(socket_addr(a), LISTEN_ADDR, now, rnd)).val :
             a \in Addrs, now \in Utc_now, rnd \in random_u64}
    \cup {Version_serialize(
             VersionBuilder_build(socket_addr(t), SENDER_LOCAL_ADDR, now, rnd)).val :
             t \in Targets, now \in Utc_now, rnd \in random_u64}

\* build_checksum of the payloads of the streams, computed once
CHECKSUMS == [payload \in StreamPayloads |-> build_checksum(payload)]

\* Message::build_checksum(&payload_bytes) at its call sites
checksum_of(payload) ==
  IF payload \in DOMAIN CHECKSUMS THEN CHECKSUMS[payload]
                                  ELSE build_checksum(payload)

Payload_Version(version) == [kind |-> "Version", version |-> version]

Payload_VerAck(verack) == [kind |-> "VerAck"]

Payload_serialize(self) ==
  IF self.kind = "Version" THEN Version_serialize(self.version)
                           ELSE VerAck_serialize(VerAck)

\* a build that writes the main network's magic whatever the flag
Message_build_mainnet(payload, ty, testet) ==
  [magic_bytes |-> MAGIC_BYTES_MAINNET, ty |-> ty, payload |-> payload]

Message_build(payload, ty, testet) ==
  [magic_bytes |-> IF testet THEN MAGIC_BYTES_TESTNET ELSE MAGIC_BYTES_MAINNET,
   ty          |-> ty,
   payload     |-> payload]

\* the length written high byte first
u32_to_be_bytes(n) ==
  <<n \div 16777216, (n \div 65536) % 256, (n \div 256) % 256, n % 256>>

\* payload_length.to_le_bytes(); a length in this model is far below 2^31, so
\* u32::try_from(payload_bytes.len()) does not fail
u32_to_le_bytes(n) ==
  <<n % 256, (n \div 256) % 256, (n \div 65536) % 256, n \div 16777216>>

Message_serialize(self) ==
  LET frame(payload_bytes, message_type) ==
        IF ~payload_bytes.ok THEN payload_bytes
        ELSE IF ~message_type.ok THEN message_type
        ELSE Ok(   self.magic_bytes
                \o message_type.val
                \o u32_to_le_bytes(Len(payload_bytes.val))
                \o checksum_of(payload_bytes.val)
                \o payload_bytes.val)
  IN  frame(Payload_serialize(self.payload), MessageType_serialize(self.ty))

Message_deserialize(data) ==
  LET n == Len(data)
  IN  IF n < MAGIC_BYTES_LENGTH + 12 THEN Err("IoError")
      ELSE
        LET magic_bytes == Slice(data, 0, MAGIC_BYTES_LENGTH)
            len         == Slice(data, 16, 4)
            \* read_u32::<LittleEndian>; 2^31 and more stands for itself as
            \* "more than any buffer holds"
            huge           == len[4] >= 128
            payload_length == len[1] + 256 * len[2] + 65536 * len[3]
                                + 16777216 * (len[4] % 128)
            checksum       == Slice(data, 20, CHECKSUM_LENGTH)
            with_version(ty, version) ==
              IF ~version.ok THEN version
              ELSE Ok([magic_bytes |-> magic_bytes,
                       ty          |-> ty,
                       payload     |-> Payload_Version(version.val)])
            payload(ty, payload_bytes) ==
              IF checksum_of(payload_bytes) # checksum
                THEN Err("InvalidChecksum")
              ELSE IF ty = "Version"
                THEN with_version(ty, Version_deserialize(payload_bytes))
              ELSE IF ty = "VerAck" THEN
                Ok([magic_bytes |-> magic_bytes,
                    ty          |-> ty,
                    payload     |-> Payload_VerAck(VerAck_deserialize(payload_bytes).val)])
              ELSE Err("UnknownType")
            header(message_type) ==
              IF ~message_type.ok THEN message_type
              ELSE IF n < BASE_SIZE THEN Err("IoError")
              ELSE IF huge \/ n < BASE_SIZE + payload_length THEN Err("IoError")
              ELSE payload(message_type.val,
                           Slice(data, BASE_SIZE, payload_length))
        IN  header(MessageType_deserialize(Slice(data, 4, 12)))

(***************************************************************************)
(* The handshake: state                                                    *)
(***************************************************************************)

VARIABLES
  network,      \* [listener, sender]: is_testnet() of each role's config
  connections,  \* the listener's DashMap<SocketAddr, ConnectionStatus>
  l_pc,         \* per peer address: the listener::run task of its stream
  l_status,     \* listener::run's local `status` of the current iteration
  l_in,         \* frames written by the peer and not yet read by the task
  l_net,        \* the peer's end of the stream: open, closed or reset
  l_out,        \* the writes listener::run made on the current stream
  l_error,      \* the Err(..) listener::run returned
  l_last,       \* history: the status the last iteration started in, the
                \* command of the frame it decoded, the frames its read took
  s_pc,         \* per target address: the sender::run task
  s_in,         \* frames written by the target and not yet read by the task
  s_net,        \* the target's end of the stream
  s_out,        \* the writes sender::run made
  s_resp,       \* what each response read so far decoded to (history)
  s_error,      \* the Err(..) sender::run returned
  s_info,       \* the Ok(ConnectionInfo) sender::run returned
  codec,        \* the value a codec run works on (SpecCodec)
  wire          \* per direction: how many of the frames one task of this
                \* program wrote have reached the other's socket
                \* (SpecLoopback)

vars ==
  <<network, connections, l_pc, l_status, l_in, l_net, l_out, l_error, l_last,
    s_pc, s_in, s_net, s_out, s_resp, s_error, s_info, codec, wire>>

listener_vars ==
  <<connections, l_pc, l_status, l_in, l_net, l_out, l_error, l_last>>

sender_vars == <<s_pc, s_in, s_net, s_out, s_resp, s_error, s_info>>

\* frames a peer may have in flight towards a task that has not read them
MaxPending == 2

RECURSIVE Flatten(_)
\* the bytes of a sequence of frames, as one read of the stream sees them
Flatten(frames) ==
  IF frames = <<>> THEN <<>> ELSE Head(frames) \o Flatten(Tail(frames))

\* an Error variant with its positional fields
Error(kind, args) == [kind |-> kind, args |-> args]

NoError == Error("None", <<>>)

(***************************************************************************)
(* listener/mod.rs                                                         *)
(***************************************************************************)

\* ConnectionStatus; "Absent" stands for an address with no entry in the map
ConnectionStatus == {"NoConnection", "Connecting", "Connected"}

\* a lookup that misses every entry: the default status whatever the map holds
get_status_default(map, addr) == "NoConnection"

\* connections.get(&addr).map(|v| v.value().clone()).unwrap_or_default()
get_status(map, addr) ==
  IF map[addr] = "Absent" THEN "NoConnection" ELSE map[addr]

\* #[error("Received wrong message type. Expected {0}, received {1}")]
\* ReceivedWrongMessageType(String, String): what the message names as the
\* expected and as the received type
Display_ReceivedWrongMessageType(e) ==
  [expected |-> e.args[1], received |-> e.args[2]]

\* send_version: Ok(the bytes written) or the Err it returns; `write_ok` is
\* whether write_all succeeds.  stream.local_addr() is taken to succeed and
\* TcpStream's flush does nothing.
send_version(local, addr, testnet, now, rnd, write_ok) ==
  LET version == VersionBuilder_build(socket_addr(addr), local, now, rnd)
      write_all(message) ==
        IF ~message.ok THEN Err(Error("BuildMessage", <<message.err>>))
        ELSE IF ~write_ok THEN Err(Error("SendVersion", <<>>))
        ELSE Ok(message.val)
  IN  write_all(Message_serialize(
                  Message_build(Payload_Version(version), "Version", testnet)))

send_verack(testnet, write_ok) ==
  LET write_all(message) ==
        IF ~message.ok THEN Err(Error("BuildMessage", <<message.err>>))
        ELSE IF ~write_ok THEN Err(Error("SendVerack", <<>>))
        ELSE Ok(message.val)
  IN  write_all(Message_serialize(
                  Message_build(Payload_VerAck(VerAck), "VerAck", testnet)))

\* what one iteration does once the read has returned
loop_result(ret, error, status, writes) ==
  [ret |-> ret, error |-> error, status |-> status, writes |-> writes]

\* a match that yields the next status without a check of the message and
\* without a reply
listener_match_eager(addr, status, message, testnet, now, rnd, write_ok) ==
  loop_result("loop", NoError,
              IF status = "NoConnection" THEN "Connecting" ELSE "Connected", <<>>)

\* `match status { .. }` of run for a decoded message
listener_match(addr, status, message, testnet, now, rnd, write_ok) ==
  IF status = "NoConnection" THEN
    IF message.ty # "Version"
      THEN loop_result("err",
             Error("ReceivedWrongMessageType",
                   <<to_string(message.ty), to_string("Version")>>),
             status, <<>>)
      ELSE LET then(sent) ==
                 IF ~sent.ok THEN loop_result("err", sent.err, status, <<>>)
                 ELSE loop_result("loop", NoError, "Connecting", <<sent.val>>)
           IN  then(send_version(LISTEN_ADDR, addr, testnet, now, rnd, write_ok))
  ELSE IF status = "Connecting" THEN
    IF message.ty # "VerAck"
      THEN loop_result("err",
             Error("ReceivedWrongMessageType",
                   <<to_string(message.ty), to_string("VerAck")>>),
             status, <<>>)
      ELSE LET then(sent) ==
                 IF ~sent.ok THEN loop_result("err", sent.err, status, <<>>)
                 ELSE loop_result("loop", NoError, "Connected", <<sent.val>>)
           IN  then(send_verack(testnet, write_ok))
  ELSE loop_result("loop", NoError, "Connected", <<>>)

\* an iteration without the check for an empty read: the bytes go to
\* Message::deserialize whatever their number
listener_iteration_unchecked(addr, status, read, testnet, now, rnd, write_ok) ==
  IF ~read.ok THEN loop_result("err", Error("FillBuffer", <<>>), status, <<>>)
  ELSE LET decoded(message) ==
             IF ~message.ok
               THEN loop_result("err",
                      Error("DeserializeVersionResponse", <<message.err>>),
                      status, <<>>)
               ELSE listener_match(addr, status, message.val, testnet, now, rnd,
                                   write_ok)
       IN  decoded(Message_deserialize(read.val))

\* one iteration of the loop of run: `read` is the outcome of fill_buf (Ok
\* with the bytes it returned, or an io::Error)
listener_iteration(addr, status, read, testnet, now, rnd, write_ok) ==
  IF ~read.ok THEN loop_result("err", Error("FillBuffer", <<>>), status, <<>>)
  ELSE IF read.val = <<>> THEN loop_result("ok", NoError, status, <<>>)
  ELSE LET decoded(message) ==
             IF ~message.ok
               THEN loop_result("err",
                      Error("DeserializeVersionResponse", <<message.err>>),
                      status, <<>>)
               ELSE listener_match(addr, status, message.val, testnet, now, rnd,
                                   write_ok)
       IN  decoded(Message_deserialize(read.val))

\* what fill_buf returns: an error on a reset stream, else all the bytes at
\* hand (no frame of this model comes near the reader's 8 KiB capacity), none
\* once the peer has closed and everything was read
fill_buf(frames, net) == IF net = "reset" THEN Err("io") ELSE Ok(Flatten(frames))

\* write_all succeeds on an open stream; once the peer has gone it may fail
write_outcomes(net) == IF net = "open" THEN {TRUE} ELSE BOOLEAN

\* a run whose connections.insert writes every key of the map
insert_all(map, addr, new_status) == [k \in DOMAIN map |-> new_status]

\* a run whose connections.insert stores Connected whatever the new status
insert_connected(map, addr, new_status) == [map EXCEPT ![addr] = "Connected"]

\* a run whose connections.insert is lost: the map stays as it was
insert_lost(map, addr, new_status) == map

\* connections.insert(addr, new_status)
insert(map, addr, new_status) == [map EXCEPT ![addr] = new_status]

\* history only: the command name at the head of what a read returned
command_of(read) ==
  IF ~read.ok THEN "io"
  ELSE IF read.val = <<>> THEN "eof"
  ELSE IF Len(read.val) < 16 THEN "short"
  ELSE LET name(ty) == IF ty.ok THEN ty.val ELSE "unknown"
       IN  name(MessageType_deserialize(Slice(read.val, 4, 12)))

\* history only: the command of the message a read decoded to
decoded_of(read) ==
  IF ~read.ok THEN "io"
  ELSE LET ty(message) == IF message.ok THEN message.val.ty ELSE "undecoded"
       IN  ty(Message_deserialize(read.val))

NoIteration == [status |-> "None", command |-> "none", frames |-> 0]

\* main: listener.accept() and tokio::spawn(listener::run(stream, ..)); run
\* up to its first read.  A peer address names at most one live stream.
Accept(a) ==
  /\ l_pc[a] # "run"
  /\ l_pc' = [l_pc EXCEPT ![a] = "run"]
  /\ l_status' = [l_status EXCEPT ![a] = get_status(connections, a)]
  /\ l_in' = [l_in EXCEPT ![a] = <<>>]
  /\ l_net' = [l_net EXCEPT ![a] = "open"]
  /\ l_out' = [l_out EXCEPT ![a] = <<>>]
  /\ l_error' = [l_error EXCEPT ![a] = NoError]
  /\ l_last' = [l_last EXCEPT ![a] = NoIteration]
  /\ UNCHANGED <<network, wire, connections, sender_vars, codec>>

\* one pass of the loop of run, from the return of fill_buf to the next
\* fill_buf (or to the return of run)
ListenerRun(a) ==
  /\ l_pc[a] = "run"
  /\ l_in[a] # <<>> \/ l_net[a] # "open"
  /\ \E now \in Utc_now, rnd \in random_u64, write_ok \in write_outcomes(l_net[a]),
        read \in {fill_buf(l_in[a], l_net[a])} :
     \E r \in {listener_iteration(a, l_status[a], read, network.listener,
                                  now, rnd, write_ok)} :
     \E map \in {IF r.ret = "loop" THEN insert(connections, a, r.status)
                                   ELSE connections} :
           /\ connections' = map
           /\ l_pc' = [l_pc EXCEPT ![a] = IF r.ret = "loop" THEN "run" ELSE r.ret]
           /\ l_status' = [l_status EXCEPT ![a] =
                             IF r.ret = "loop" THEN get_status(map, a) ELSE @]
           /\ l_in' = [l_in EXCEPT ![a] = <<>>]
           /\ l_out' = [l_out EXCEPT ![a] = @ \o r.writes]
           /\ l_error' = [l_error EXCEPT ![a] = r.error]
           /\ l_last' = [l_last EXCEPT ![a] =
                           [status  |-> l_status[a],
                            command |-> command_of(read),
                            frames  |-> Len(l_in[a])]]
  /\ UNCHANGED <<network, wire, l_net, sender_vars, codec>>

\* the peer writes one frame, with fewer than `cap` of its frames unread
PeerSend(a, frame, cap) ==
  /\ l_pc[a] = "run"
  /\ l_net[a] = "open"
  /\ Len(l_in[a]) < cap
  /\ l_in' = [l_in EXCEPT ![a] = Append(@, frame)]
  /\ UNCHANGED <<network, wire, connections, l_pc, l_status, l_net, l_out, l_error,
                 l_last, sender_vars, codec>>

\* the peer closes its end: what it wrote is still read, then reads return
\* nothing
PeerClose(a) ==
  /\ l_pc[a] = "run"
  /\ l_net[a] = "open"
  /\ l_net' = [l_net EXCEPT ![a] = "closed"]
  /\ UNCHANGED <<network, wire, connections, l_pc, l_status, l_in, l_out, l_error,
                 l_last, sender_vars, codec>>

\* the stream breaks (a reset): reads fail from here on
PeerReset(a) ==
  /\ l_pc[a] = "run"
  /\ l_net[a] = "open"
  /\ l_net' = [l_net EXCEPT ![a] = "reset"]
  /\ l_in' = [l_in EXCEPT ![a] = <<>>]
  /\ UNCHANGED <<network, wire, connections, l_pc, l_status, l_out, l_error,
                 l_last, sender_vars, codec>>

(***************************************************************************)
(* What a remote peer may write                                            *)
(***************************************************************************)

\* a frame as it goes over the wire: any magic, any 12-byte command field
wire_frame(magic, command, payload) ==
  magic \o command \o u32_to_le_bytes(Len(payload)) \o checksum_of(payload)
        \o payload

magic_of(testnet) == IF testnet THEN MAGIC_BYTES_TESTNET ELSE MAGIC_BYTES_MAINNET

\* a well-framed message of a recognized command
remote_frame(ty, testnet) ==
  wire_frame(magic_of(testnet), MessageType_serialize(ty).val, remote_payload(ty))

\* a frame whose payload was altered after the checksum was taken
BAD_CHECKSUM_FRAME ==
  [remote_frame("Version", FALSE) EXCEPT ![BASE_SIZE + 1] = (@ + 1) % 256]

\* a frame cut inside its header
TRUNCATED_FRAME == SubSeq(remote_frame("VerAck", FALSE), 1, 10)

\* a frame whose command field ("foo") is no recognized name
UNKNOWN_COMMAND_FRAME ==
  wire_frame(MAGIC_BYTES_MAINNET, <<102, 111, 111>> \o Zeros(9), <<>>)

\* well-framed messages of all 17 recognized commands
WellFramed == {remote_frame(ty, FALSE) : ty \in MessageType}

\* the handshake messages under the other network's magic
OtherNetwork == {remote_frame(ty, TRUE) : ty \in {"Version", "VerAck"}}

\* four bytes that are the magic of neither network of this program (the
\* regression-test network's FA BF B5 DA)
ANOTHER_MAGIC == <<250, 191, 181, 218>>

\* the handshake messages under that magic
AnotherNetwork ==
  {wire_frame(ANOTHER_MAGIC, MessageType_serialize(ty).val, remote_payload(ty)) :
     ty \in {"Version", "VerAck"}}

Malformed == {BAD_CHECKSUM_FRAME, TRUNCATED_FRAME, UNKNOWN_COMMAND_FRAME}

\* everything a remote peer writes in this model
RemoteFrames == WellFramed \cup OtherNetwork \cup AnotherNetwork \cup Malformed

\* what a remote peer writes right behind a frame that is still unread
PipelinedFrames == {remote_frame(ty, FALSE) : ty \in {"Version", "VerAck", "Ping"}}

\* the remote frames of the runs with several tasks
CoreFrames == PipelinedFrames

\* the frames a peer may write next: any frame first, a pipelined one behind
next_frames(pending, first) == IF pending = <<>> THEN first ELSE PipelinedFrames

(***************************************************************************)
(* sender/mod.rs                                                           *)
(***************************************************************************)

ConnectionInfo(addr) == [addr |-> addr]

NoInfo == [addr |-> "None"]

\* version(): the message it writes (Ok with the bytes, or its Err)
sender_send_version(addr, testnet, now, rnd, write_ok) ==
  send_version(SENDER_LOCAL_ADDR, addr, testnet, now, rnd, write_ok)

\* version(), from the return of fill_buf: the response it returns
version_response(read) ==
  IF ~read.ok THEN Err(Error("FillBuffer", <<>>))
  ELSE LET map_err(message) ==
             IF ~message.ok
               THEN Err(Error("DeserializeVersionResponse", <<message.err>>))
               ELSE message
       IN  map_err(Message_deserialize(read.val))

\* verack(), from the return of fill_buf: the response it returns
verack_response(read) ==
  IF ~read.ok THEN Err(Error("FillBuffer", <<>>))
  ELSE LET map_err(message) ==
             IF ~message.ok
               THEN Err(Error("DeserializeVerackResponse", <<message.err>>))
               ELSE message
       IN  map_err(Message_deserialize(read.val))

\* a check that lets every type pass
check_type_any(resp, expected) == Ok(resp)

\* if *resp.ty() != expected { return Err(ReceivedWrongMessageType(..)) }
check_type(resp, expected) ==
  IF resp.ty # expected
    THEN Err(Error("ReceivedWrongMessageType",
                   <<to_string(resp.ty), to_string(expected)>>))
    ELSE Ok(resp)

\* a run that writes its verack whatever the read of version() returned
after_version_unchecked(read, testnet, write_ok) == send_verack(testnet, write_ok)

\* run, from the response to its version up to the read inside verack():
\* Ok with the verack bytes written, or the Err run returns
after_version(read, testnet, write_ok) ==
  LET then(checked) ==
        IF ~checked.ok THEN checked ELSE send_verack(testnet, write_ok)
      responded(resp_version) ==
        IF ~resp_version.ok THEN resp_version
        ELSE then(check_type(resp_version.val, "Version"))
  IN  responded(version_response(read))

\* a run that returns its ConnectionInfo whatever the response to its verack
after_verack_unchecked(addr, read) == Ok(ConnectionInfo(addr))

\* run, from the response to its verack to its return
after_verack(addr, read) ==
  LET then(checked) ==
        IF ~checked.ok THEN checked ELSE Ok(ConnectionInfo(addr))
      responded(resp_verack) ==
        IF ~resp_verack.ok THEN resp_verack
        ELSE then(check_type(resp_verack.val, "VerAck"))
  IN  responded(verack_response(read))

\* a task that ends without keeping the error it failed with
sender_fails_silently(t, e) ==
  /\ s_pc' = [s_pc EXCEPT ![t] = "err"]
  /\ s_in' = [s_in EXCEPT ![t] = <<>>]
  /\ UNCHANGED <<s_error, s_info, s_net>>

\* a task that keeps waiting where run would return Err(e)
sender_waits_on(t, e) == UNCHANGED <<s_pc, s_error, s_in, s_info, s_net>>

\* the task of `t` ends with Err(e): its stream is dropped
sender_fails(t, e) ==
  /\ s_pc' = [s_pc EXCEPT ![t] = "err"]
  /\ s_error' = [s_error EXCEPT ![t] = e]
  /\ s_in' = [s_in EXCEPT ![t] = <<>>]
  /\ UNCHANGED <<s_info, s_net>>

\* TcpStream::connect(addr) returns a stream inside CONNECTION_TIMEOUT, and
\* version() writes its message and waits in fill_buf
SenderConnect(t) ==
  /\ s_pc[t] = "start"
  /\ \E now \in Utc_now, rnd \in random_u64 :
       \E sent \in {sender_send_version(t, network.sender, now, rnd, TRUE)} :
           /\ s_pc' = [s_pc EXCEPT ![t] = "version"]
           /\ s_out' = [s_out EXCEPT ![t] = Append(@, sent.val)]
  /\ UNCHANGED <<network, wire, listener_vars, s_in, s_net, s_resp, s_error, s_info,
                 codec>>

\* TcpStream::connect(addr) returns an io::Error
SenderConnectError(t) ==
  /\ s_pc[t] = "start"
  /\ sender_fails(t, Error("TcpConnection", <<t>>))
  /\ UNCHANGED <<network, wire, listener_vars, s_out, s_resp, codec>>

\* CONNECTION_TIMEOUT elapses before TcpStream::connect(addr) returns
SenderConnectTimeout(t) ==
  /\ s_pc[t] = "start"
  /\ sender_fails(t, Error("ConnectionTimeout", <<>>))
  /\ UNCHANGED <<network, wire, listener_vars, s_out, s_resp, codec>>

\* the read of version() returns: the check of the response, then verack()
\* up to its read
SenderVersionResponse(t) ==
  /\ s_pc[t] = "version"
  /\ s_in[t] # <<>> \/ s_net[t] # "open"
  /\ \E write_ok \in write_outcomes(s_net[t]), read \in {fill_buf(s_in[t], s_net[t])} :
       \E r \in {after_version(read, network.sender, write_ok)} :
           /\ s_resp' = [s_resp EXCEPT ![t] = Append(@, decoded_of(read))]
           /\ IF r.ok
                THEN /\ s_pc' = [s_pc EXCEPT ![t] = "verack"]
                     /\ s_out' = [s_out EXCEPT ![t] = Append(@, r.val)]
                     /\ s_in' = [s_in EXCEPT ![t] = <<>>]
                     /\ UNCHANGED <<s_error, s_info, s_net>>
                ELSE /\ sender_fails(t, r.err)
                     /\ UNCHANGED s_out
  /\ UNCHANGED <<network, wire, listener_vars, codec>>

\* VERSION_TIMEOUT elapses with version() still waiting for bytes
SenderVersionTimeout(t) ==
  /\ s_pc[t] = "version"
  /\ s_in[t] = <<>> /\ s_net[t] = "open"
  /\ sender_fails(t, Error("VersionTimeout", <<>>))
  /\ UNCHANGED <<network, wire, listener_vars, s_out, s_resp, codec>>

\* the read of verack() returns: the check of the response and the return
SenderVerackResponse(t) ==
  /\ s_pc[t] = "verack"
  /\ s_in[t] # <<>> \/ s_net[t] # "open"
  /\ \E read \in {fill_buf(s_in[t], s_net[t])} :
     \E r \in {after_verack(t, read)} :
         /\ s_resp' = [s_resp EXCEPT ![t] = Append(@, decoded_of(read))]
         /\ IF r.ok
              THEN /\ s_pc' = [s_pc EXCEPT ![t] = "ok"]
                   /\ s_info' = [s_info EXCEPT ![t] = r.val]
                   /\ s_in' = [s_in EXCEPT ![t] = <<>>]
                   /\ UNCHANGED <<s_error, s_net>>
              ELSE sender_fails(t, r.err)
  /\ UNCHANGED <<network, wire, listener_vars, s_out, codec>>

\* VERACK_TIMEOUT elapses with verack() still waiting for bytes
SenderVerackTimeout(t) ==
  /\ s_pc[t] = "verack"
  /\ s_in[t] = <<>> /\ s_net[t] = "open"
  /\ sender_fails(t, Error("VerackTimeout", <<>>))
  /\ UNCHANGED <<network, wire, listener_vars, s_out, s_resp, codec>>

\* the target writes one frame, with fewer than `cap` of its frames unread
TargetSend(t, frame, cap) ==
  /\ s_pc[t] \in {"version", "verack"}
  /\ s_net[t] = "open"
  /\ Len(s_in[t]) < cap
  /\ s_in' = [s_in EXCEPT ![t] = Append(@, frame)]
  /\ UNCHANGED <<network, wire, listener_vars, s_pc, s_net, s_out, s_resp, s_error,
                 s_info, codec>>

\* the target closes its end
TargetClose(t) ==
  /\ s_pc[t] \in {"version", "verack"}
  /\ s_net[t] = "open"
  /\ s_net' = [s_net EXCEPT ![t] = "closed"]
  /\ UNCHANGED <<network, wire, listener_vars, s_pc, s_in, s_out, s_resp, s_error,
                 s_info, codec>>

\* the stream breaks
TargetReset(t) ==
  /\ s_pc[t] \in {"version", "verack"}
  /\ s_net[t] = "open"
  /\ s_net' = [s_net EXCEPT ![t] = "reset"]
  /\ s_in' = [s_in EXCEPT ![t] = <<>>]
  /\ UNCHANGED <<network, wire, listener_vars, s_pc, s_out, s_resp, s_error, s_info,
                 codec>>

(***************************************************************************)
(* Specifications of the handshake                                         *)
(***************************************************************************)

NoListeners ==
  /\ connections = [a \in Addrs |-> "Absent"]
  /\ l_pc = [a \in Addrs |-> "none"]
  /\ l_status = [a \in Addrs |-> "NoConnection"]
  /\ l_in = [a \in Addrs |-> <<>>]
  /\ l_net = [a \in Addrs |-> "open"]
  /\ l_out = [a \in Addrs |-> <<>>]
  /\ l_error = [a \in Addrs |-> NoError]
  /\ l_last = [a \in Addrs |-> NoIteration]

\* no stream joins two tasks of this program, or nothing has crossed it
NothingCarried == wire = [to_listener |-> 0, to_sender |-> 0]

\* main has spawned sender::run for the targets in `spawned`
Senders(spawned) ==
  /\ s_pc = [t \in Targets |-> IF t \in spawned THEN "start" ELSE "none"]
  /\ s_in = [t \in Targets |-> <<>>]
  /\ s_net = [t \in Targets |-> "open"]
  /\ s_out = [t \in Targets |-> <<>>]
  /\ s_resp = [t \in Targets |-> <<>>]
  /\ s_error = [t \in Targets |-> NoError]
  /\ s_info = [t \in Targets |-> NoInfo]

\* the listener alone, one peer address, every remote frame
InitListener ==
  /\ network \in {[listener |-> n, sender |-> FALSE] : n \in BOOLEAN}
  /\ NoListeners
  /\ NothingCarried
  /\ Senders({})
  /\ codec = "none"

NextListener ==
  \E a \in {PeerA} :
    \/ Accept(a)
    \/ ListenerRun(a)
    \/ \E frame \in next_frames(l_in[a], RemoteFrames) : PeerSend(a, frame, MaxPending)
    \/ PeerClose(a)
    \/ PeerReset(a)

SpecListener == InitListener /\ [][NextListener]_vars

\* the sender alone, one target, every remote frame
InitSender ==
  /\ network \in {[listener |-> FALSE, sender |-> n] : n \in BOOLEAN}
  /\ NoListeners
  /\ NothingCarried
  /\ Senders({TargetA})
  /\ codec = "none"

NextSender ==
  \E t \in {TargetA} :
    \/ SenderConnect(t)
    \/ SenderConnectError(t)
    \/ SenderConnectTimeout(t)
    \/ SenderVersionResponse(t)
    \/ SenderVersionTimeout(t)
    \/ SenderVerackResponse(t)
    \/ SenderVerackTimeout(t)
    \/ \E frame \in next_frames(s_in[t], RemoteFrames) : TargetSend(t, frame, MaxPending)
    \/ TargetClose(t)
    \/ TargetReset(t)

SpecSender == InitSender /\ [][NextSender]_vars

\* main: the responder tasks of two peer addresses on one shared map and the
\* initiator task of one target, interleaved.  A peer writes its next frame
\* once the task has read the one before; the target accepts or refuses the
\* connection and writes nothing.
Init ==
  /\ network \in {[listener |-> n, sender |-> n] : n \in BOOLEAN}
  /\ NoListeners
  /\ NothingCarried
  /\ Senders({TargetA})
  /\ codec = "none"

Next ==
  \/ \E a \in Addrs :
       \/ Accept(a)
       \/ ListenerRun(a)
       \/ \E frame \in CoreFrames : l_in[a] = <<>> /\ PeerSend(a, frame, MaxPending)
       \/ PeerClose(a)
       \/ PeerReset(a)
  \/ \E t \in Targets :
       \/ SenderConnect(t)
       \/ SenderConnectError(t)
       \/ SenderConnectTimeout(t)
       \/ SenderVersionTimeout(t)

Spec == Init /\ [][Next]_vars

\* every step of sender::run: each of its awaits returns, or the timeout
\* around it elapses
SenderStep(t) ==
  \/ SenderConnect(t)
  \/ SenderConnectError(t)
  \/ SenderConnectTimeout(t)
  \/ SenderVersionResponse(t)
  \/ SenderVersionTimeout(t)
  \/ SenderVerackResponse(t)
  \/ SenderVerackTimeout(t)

\* one initiator task against a target that does anything, and one responder
\* task against a peer that does anything or nothing.  A remote end writes
\* its next frame once the task has read the one before.
InitTermination ==
  /\ network \in {[listener |-> n, sender |-> n] : n \in BOOLEAN}
  /\ NoListeners
  /\ NothingCarried
  /\ Senders({TargetA})
  /\ codec = "none"

NextTermination ==
  \/ \E t \in {TargetA} :
       \/ SenderStep(t)
       \/ \E frame \in RemoteFrames :
            s_in[t] = <<>> /\ TargetSend(t, frame, MaxPending)
       \/ TargetClose(t)
       \/ TargetReset(t)
  \/ \E a \in {PeerA} :
       \/ Accept(a)
       \/ ListenerRun(a)
       \/ \E frame \in CoreFrames : l_in[a] = <<>> /\ PeerSend(a, frame, MaxPending)
       \/ PeerClose(a)
       \/ PeerReset(a)

\* a step of sender::run as the position of the task shows it: each step
\* takes the task from one await to the next or to its return.  Such a step
\* is possible wherever the task waits: a connect returns or its timeout
\* elapses, a read returns or its timeout elapses.
SenderProgress(t) ==
  /\ s_pc[t] \in {"start", "version", "verack"}
  /\ s_pc' \in {[s_pc EXCEPT ![t] = pc] :
                 pc \in {"version", "verack", "ok", "err"} \ {s_pc[t]}}

\* the runtime runs a task that can take a step and fires a timer that has
\* elapsed: the initiator task does not wait for ever where a step of it is
\* possible.  Nothing makes a remote peer write or close.
SpecTermination ==
  /\ InitTermination
  /\ [][NextTermination]_vars
  /\ WF_s_pc(SenderProgress(TargetA))

\* the responder's listener.accept() returns the stream of the initiator's
\* connect; `a` is the address the responder sees that stream come from
LoopAccept(t, a) ==
  /\ s_pc[t] \notin {"none", "start"}
  /\ l_pc[a] = "none"
  /\ Accept(a)

\* the stream hands the initiator's next written frame to the responder's
\* socket: in order, nothing lost, one whole message for each read
CarryToListener(t, a) ==
  /\ l_pc[a] = "run" /\ l_net[a] = "open"
  /\ l_in[a] = <<>>
  /\ wire.to_listener < Len(s_out[t])
  /\ l_in' = [l_in EXCEPT ![a] = <<s_out[t][wire.to_listener + 1]>>]
  /\ wire' = [wire EXCEPT !.to_listener = @ + 1]
  /\ UNCHANGED <<network, connections, l_pc, l_status, l_net, l_out, l_error,
                 l_last, sender_vars, codec>>

\* the stream hands the responder's next written frame to the initiator's
\* socket
CarryToSender(a, t) ==
  /\ s_pc[t] \in {"version", "verack"} /\ s_net[t] = "open"
  /\ s_in[t] = <<>>
  /\ wire.to_sender < Len(l_out[a])
  /\ s_in' = [s_in EXCEPT ![t] = <<l_out[a][wire.to_sender + 1]>>]
  /\ wire' = [wire EXCEPT !.to_sender = @ + 1]
  /\ UNCHANGED <<network, listener_vars, s_pc, s_net, s_out, s_resp, s_error,
                 s_info, codec>>

\* sender::run has returned and its stream is dropped: the responder's end
\* sees the close behind everything the initiator wrote
SenderDrop(t, a) ==
  /\ s_pc[t] \in {"ok", "err"}
  /\ wire.to_listener = Len(s_out[t])
  /\ PeerClose(a)

\* an initiator of this program and a responder of this program, each
\* configured for either network; the responder's map has no entry for the
\* initiator's address and whatever entry for another peer's
InitLoopback ==
  /\ network \in [listener : BOOLEAN, sender : BOOLEAN]
  /\ connections \in {[a \in Addrs |-> IF a = PeerA THEN "Absent" ELSE other] :
                         other \in {"Absent", "Connecting", "Connected"}}
  /\ l_pc = [a \in Addrs |-> "none"]
  /\ l_status = [a \in Addrs |-> "NoConnection"]
  /\ l_in = [a \in Addrs |-> <<>>]
  /\ l_net = [a \in Addrs |-> "open"]
  /\ l_out = [a \in Addrs |-> <<>>]
  /\ l_error = [a \in Addrs |-> NoError]
  /\ l_last = [a \in Addrs |-> NoIteration]
  /\ NothingCarried
  /\ Senders({TargetA})
  /\ codec = "none"

\* no timeout elapses and the connect succeeds
NextLoopback ==
  \E t \in {TargetA}, a \in {PeerA} :
    \/ SenderConnect(t)
    \/ LoopAccept(t, a)
    \/ CarryToListener(t, a)
    \/ ListenerRun(a)
    \/ CarryToSender(a, t)
    \/ SenderVersionResponse(t)
    \/ SenderVerackResponse(t)
    \/ SenderDrop(t, a)

\* while a task can run or the stream has something to hand over, one of
\* them does
SpecLoopback ==
  /\ InitLoopback
  /\ [][NextLoopback]_vars
  /\ WF_vars(NextLoopback)

(***************************************************************************)
(* Specification of the codec: values of the crate's types are serialized  *)
(* and the bytes are deserialized again                                    *)
(***************************************************************************)

\* SocketAddr::V6(SocketAddrV6::new(ip, port, flowinfo, scope_id))
SocketAddrV6_new(ip, port, flowinfo, scope_id) ==
  [fam |-> "V6", ip |-> ip, port |-> port, flowinfo |-> flowinfo,
   scope_id |-> scope_id]

\* [::ffff:10.0.0.1]:8333, an IPv6 address of the IPv4-mapped form
MAPPED_ADDR == SocketAddr_new("V6", to_ipv6_mapped(<<10, 0, 0, 1>>), 8333)

\* [2001:db8::9%3]:18333 with flowinfo 7
SCOPED_ADDR ==
  SocketAddrV6_new(<<32, 1, 13, 184>> \o Zeros(11) \o <<9>>, 18333, 7, 3)

\* the addresses of the Version values serialized
CodecAddrs ==
  {SocketAddr_new("V4", <<127, 0, 0, 1>>, 18333),
   SocketAddr_new("V4", <<255, 255, 255, 255>>, 65535),
   socket_addr("[2001:db8::2]:40002"),
   MAPPED_ADDR,
   SCOPED_ADDR}

\* user agents (Strings, so valid UTF-8) of 0, 1, 2, 14, u8::MAX and
\* u8::MAX + 1 bytes
CodecUserAgents ==
  {<<>>, <<65>>, <<195, 169>>, DEFAULT_USER_AGENT, Repeat(97, U8_MAX),
   Repeat(97, U8_MAX + 1)}

I32_MIN == (0 - 2147483647) - 1

\* <<protocol_version, start_height>>
CodecI32s == {<<70016, 0>>, <<0 - 1, 800000>>, <<I32_MIN, 2147483647>>}

\* <<services, timestamp, receiver_services, sender_services, nonce>>
CodecU64s ==
  {<<Zeros(8), Zeros(8), Zeros(8), Zeros(8), Zeros(8)>>,
   <<U64_ONE, <<0, 0, 0, 0, 101, 75, 209, 0>>, <<0, 0, 0, 0, 0, 0, 4, 9>>,
     <<1, 2, 3, 4, 5, 6, 7, 8>>, <<255, 2, 3, 4, 5, 6, 7, 128>>>>,
   <<Repeat(255, 8), Repeat(255, 8), Repeat(255, 8), Repeat(255, 8),
     Repeat(255, 8)>>}

\* a Version with every field given
Version_new(i32s, u64s, receiver, sender, user_agent, relay) ==
  [protocol_version  |-> i32s[1],
   services          |-> u64s[1],
   timestamp         |-> u64s[2],
   receiver_services |-> u64s[3],
   receiver_address  |-> receiver,
   sender_services   |-> u64s[4],
   sender_address    |-> sender,
   nonce             |-> u64s[5],
   user_agent        |-> user_agent,
   start_height      |-> i32s[2],
   relay             |-> relay]

\* the Version values serialized on their own
CodecVersions ==
  {Version_new(i32s, u64s, receiver, sender, user_agent, relay) :
     i32s \in CodecI32s, u64s \in CodecU64s,
     receiver \in CodecAddrs \ {SocketAddr_new("V4", <<255, 255, 255, 255>>, 65535)},
     sender \in CodecAddrs \ {SocketAddr_new("V4", <<127, 0, 0, 1>>, 18333)},
     user_agent \in CodecUserAgents, relay \in BOOLEAN}

\* the payloads of the Messages built
CodecPayloads ==
  {Payload_VerAck(VerAck)} \cup
  {Payload_Version(
     VersionBuilder_build(receiver, sender, now, rnd)) :
     receiver \in CodecAddrs, sender \in CodecAddrs, now \in Utc_now,
     rnd \in random_u64} \cup
  {Payload_Version(
     Version_new(<<70016, 0>>, <<U64_ONE, U64_ONE, U64_ONE, U64_ONE, U64_ONE>>,
                 LISTEN_ADDR, SENDER_LOCAL_ADDR, user_agent, TRUE)) :
     user_agent \in CodecUserAgents}

\* Message::build(payload, ty, testet) over the payloads, the two commands
\* that have a payload codec and one that has none
CodecMessages ==
  {Message_build(payload, ty, testet) :
     payload \in CodecPayloads, ty \in {"Version", "VerAck", "Ping"},
     testet \in BOOLEAN}

\* a value before it is serialized (bytes and names are held in a record of
\* one field, as the values of the crate's structs are); `bytes` is what serialize returns, `line`
\* what the line has made of the bytes, `output` what deserialize returns
codec_input(type, value) ==
  [type |-> type, stage |-> "input", input |-> value, bytes |-> Err("none"),
   line |-> Err("none"), output |-> Err("none")]

\* names as long as the command field and longer; the longest name of the
\* enum, sendheaders, has 11 bytes
CodecNames == {Repeat(97, n) : n \in MessageType_SIZE .. MessageType_SIZE + 2}

InitCodec ==
  /\ network = [listener |-> FALSE, sender |-> FALSE]
  /\ NoListeners
  /\ NothingCarried
  /\ Senders({})
  /\ codec \in {codec_input("Version", version) : version \in CodecVersions}
             \cup {codec_input("Message", message) : message \in CodecMessages}
             \cup {codec_input("Frame", [data |-> frame]) : frame \in RemoteFrames}
             \cup {codec_input("MessageType", [ty |-> ty]) : ty \in MessageType}
             \cup {codec_input("Name", [result |-> name]) : name \in CodecNames}

\* x.serialize() for a Version x
VersionSerialize ==
  /\ codec.type = "Version" /\ codec.stage = "input"
  /\ codec' = [codec EXCEPT !.stage = "serialized",
                            !.bytes = Version_serialize(codec.input)]
  /\ UNCHANGED <<network, wire, listener_vars, sender_vars>>

\* Version::deserialize of the bytes serialize returned
VersionDeserialize ==
  /\ codec.type = "Version" /\ codec.stage = "serialized" /\ codec.bytes.ok
  /\ codec' = [codec EXCEPT !.stage = "deserialized",
                            !.output = Version_deserialize(codec.bytes.val)]
  /\ UNCHANGED <<network, wire, listener_vars, sender_vars>>

\* m.serialize() for a Message m
MessageSerialize ==
  /\ codec.type = "Message" /\ codec.stage = "input"
  /\ codec' = [codec EXCEPT !.stage = "serialized",
                            !.bytes = Message_serialize(codec.input)]
  /\ UNCHANGED <<network, wire, listener_vars, sender_vars>>

\* Message::deserialize of the bytes serialize returned
MessageDeserialize ==
  /\ codec.type = "Message" /\ codec.stage = "serialized" /\ codec.bytes.ok
  /\ codec' = [codec EXCEPT !.stage = "deserialized",
                            !.output = Message_deserialize(codec.bytes.val)]
  /\ UNCHANGED <<network, wire, listener_vars, sender_vars>>

\* the byte with one of its 8 bits changed
flip_bit(byte, bit) ==
  IF (byte \div 2 ^ bit) % 2 = 1 THEN byte - 2 ^ bit ELSE byte + 2 ^ bit

\* the bytes with one bit of the byte at `offset` (counted from 1) changed
corrupted(bytes, offset, bit) == [bytes EXCEPT ![offset] = flip_bit(@, bit)]

\* Message::deserialize of the bytes serialize returned after one bit of
\* their payload region (the bytes behind the 24 of the header) has changed
MessageDeserializeCorrupted ==
  /\ codec.type = "Message" /\ codec.stage = "serialized" /\ codec.bytes.ok
  /\ \E offset \in BASE_SIZE + 1 .. Len(codec.bytes.val), bit \in 0..7 :
       \E data \in {corrupted(codec.bytes.val, offset, bit)} :
         codec' = [codec EXCEPT !.stage = "corrupted",
                                !.line = Ok(data),
                                !.output = Message_deserialize(data)]
  /\ UNCHANGED <<network, wire, listener_vars, sender_vars>>

\* Message::deserialize of the bytes of a frame read from a stream
FrameDeserialize ==
  /\ codec.type = "Frame" /\ codec.stage = "input"
  /\ codec' = [codec EXCEPT !.stage = "deserialized",
                            !.output = Message_deserialize(codec.input.data)]
  /\ UNCHANGED <<network, wire, listener_vars, sender_vars>>

\* ty.serialize() for a MessageType ty
MessageTypeSerialize ==
  /\ codec.type = "MessageType" /\ codec.stage = "input"
  /\ codec' = [codec EXCEPT !.stage = "serialized",
                            !.bytes = MessageType_serialize(codec.input.ty)]
  /\ UNCHANGED <<network, wire, listener_vars, sender_vars>>

\* MessageType::deserialize of the bytes serialize returned
MessageTypeDeserialize ==
  /\ codec.type = "MessageType" /\ codec.stage = "serialized" /\ codec.bytes.ok
  /\ codec' = [codec EXCEPT !.stage = "deserialized",
                            !.output = MessageType_deserialize(codec.bytes.val)]
  /\ UNCHANGED <<network, wire, listener_vars, sender_vars>>

\* serialize's check and padding for a name no variant of the enum has
NameSerialize ==
  /\ codec.type = "Name" /\ codec.stage = "input"
  /\ codec' = [codec EXCEPT !.stage = "serialized",
                            !.bytes = serialize_name(codec.input.result)]
  /\ UNCHANGED <<network, wire, listener_vars, sender_vars>>

NextCodec ==
  \/ VersionSerialize
  \/ VersionDeserialize
  \/ MessageSerialize
  \/ MessageDeserialize
  \/ FrameDeserialize
  \/ MessageTypeSerialize
  \/ MessageTypeDeserialize
  \/ NameSerialize

SpecCodec == InitCodec /\ [][NextCodec]_vars

(***************************************************************************)
(* Specification of the envelope on a line that changes bits: Messages are *)
(* serialized and the bytes are deserialized as they are and with one bit  *)
(* of their payload region changed                                         *)
(***************************************************************************)

\* the payloads of the Messages sent over the line: versions with each user
\* agent, the version a responder builds for an IPv6 peer, and a verack
CorruptedPayloads ==
  {Payload_VerAck(VerAck)} \cup
  {Payload_Version(VersionBuilder_build(socket_addr(PeerB), LISTEN_ADDR, now, rnd)) :
     now \in Utc_now, rnd \in random_u64} \cup
  {Payload_Version(
     Version_new(<<70016, 0>>, <<U64_ONE, U64_ONE, U64_ONE, U64_ONE, U64_ONE>>,
                 LISTEN_ADDR, SENDER_LOCAL_ADDR, user_agent, TRUE)) :
     user_agent \in CodecUserAgents}

\* the Messages sent over the line: each payload under its own command on
\* both networks, and under a command without a payload codec
CorruptedMessages ==
  {Message_build(payload, IF payload.kind = "Version" THEN "Version" ELSE "VerAck",
                 testet) : payload \in CorruptedPayloads, testet \in BOOLEAN}
    \cup {Message_build(payload, "Ping", FALSE) : payload \in CorruptedPayloads}

InitCorrupted ==
  /\ network = [listener |-> FALSE, sender |-> FALSE]
  /\ NoListeners
  /\ NothingCarried
  /\ Senders({})
  /\ codec \in {codec_input("Message", message) : message \in CorruptedMessages}

NextCorrupted ==
  \/ MessageSerialize
  \/ MessageDeserialize
  \/ MessageDeserializeCorrupted

SpecCorrupted == InitCorrupted /\ [][NextCorrupted]_vars

(***************************************************************************)
(* Properties of the responder                                             *)
(***************************************************************************)

\* the step from `a`'s task returning from fill_buf with bytes at hand to
\* its next fill_buf or its return
ListenerIterates(a) ==
  /\ l_pc[a] = "run" /\ l_net'[a] = l_net[a]
  /\ l_in[a] # <<>> /\ l_in'[a] = <<>>

\* the same on a stream the peer keeps open, where write_all succeeds
ListenerReads(a) == ListenerIterates(a) /\ l_net[a] = "open"

\* the address has no entry in the map or the entry NoConnection
Unconnected(a) == connections[a] \in {"Absent", "NoConnection"}

\* the command of the message a read of `frames` decodes to ("none" when
\* Message::deserialize fails)
received(frames) ==
  LET ty(message) == IF message.ok THEN message.val.ty ELSE "none"
  IN  ty(Message_deserialize(Flatten(frames)))

\* what Message::deserialize fails with on a read of `frames` ("none" when
\* it succeeds)
decode_error(frames) ==
  LET e(message) == IF message.ok THEN "none" ELSE message.err
  IN  e(Message_deserialize(Flatten(frames)))

\* the recognized command of the well-framed message at the head of a read
\* of `frames`: its command field holds one of the 17 names, its payload is
\* there in full and its checksum is the payload's ("none" otherwise)
framed_command(frames) ==
  LET name(ty) ==
        IF ty \in MessageType
             /\ decode_error(frames) \notin {"IoError", "InvalidChecksum"}
          THEN ty ELSE "none"
  IN  name(command_of(Ok(Flatten(frames))))

\* the bytes are one well-framed message of command `ty`
is_frame_of(bytes, ty) ==
  LET same(message) == message.ok /\ message.val.ty = ty
                         /\ Message_serialize(message.val) = Ok(bytes)
  IN  same(Message_deserialize(bytes))

\* C1: while the peer keeps the stream open, a responder task whose address
\* is NoConnection (or absent) in the map and that receives a version writes
\* exactly one message, a version naming the peer as receiver, sets the
\* address's status to Connecting and reads on; a task whose address is
\* Connecting and that receives a verack writes exactly one verack, sets the
\* status to Connected and reads on.
C1_ResponderHandshake ==
  [][\A a \in Addrs :
       ListenerReads(a) =>
         /\ (Unconnected(a) /\ received(l_in[a]) = "Version")
              => /\ Len(l_out'[a]) = Len(l_out[a]) + 1
                 /\ is_frame_of(l_out'[a][Len(l_out'[a])], "Version")
                 /\ Message_deserialize(l_out'[a][Len(l_out'[a])]).val
                      .payload.version.receiver_address = socket_addr(a)
                 /\ connections'[a] = "Connecting"
                 /\ l_pc'[a] = "run"
         /\ (connections[a] = "Connecting" /\ received(l_in[a]) = "VerAck")
              => /\ Len(l_out'[a]) = Len(l_out[a]) + 1
                 /\ is_frame_of(l_out'[a][Len(l_out'[a])], "VerAck")
                 /\ connections'[a] = "Connected"
                 /\ l_pc'[a] = "run"]_vars

\* a task that went through both steps: it wrote a version, then a verack,
\* and its address is Connected
C1_Witness ==
  /\ l_pc[PeerA] = "run"
  /\ connections[PeerA] = "Connected"
  /\ Len(l_out[PeerA]) = 2
  /\ is_frame_of(l_out[PeerA][1], "Version")
  /\ is_frame_of(l_out[PeerA][2], "VerAck")

\* the task of `a` has returned Err(ReceivedWrongMessageType(..)) without a
\* write and without a change of the map
FailsWithWrongType(a) ==
  /\ l_pc'[a] = "err"
  /\ l_error'[a].kind = "ReceivedWrongMessageType"
  /\ l_out'[a] = l_out[a]
  /\ connections' = connections

\* C2: a responder task whose address is NoConnection and that receives a
\* verack first returns the wrong-message-type error, the error's message
\* names verack as the received and version as the expected type, and
\* nothing was written to the peer.
C2_VerackFirstNamesReceivedAndExpected ==
  [][\A a \in Addrs :
       (ListenerIterates(a) /\ Unconnected(a) /\ l_out[a] = <<>>
          /\ received(l_in[a]) = "VerAck")
       => /\ FailsWithWrongType(a)
          /\ Display_ReceivedWrongMessageType(l_error'[a]).received
               = to_string("VerAck")
          /\ Display_ReceivedWrongMessageType(l_error'[a]).expected
               = to_string("Version")
          /\ l_out'[a] = <<>>]_vars

\* a task that received a verack first and returned the error
C2_Witness ==
  /\ l_pc[PeerA] = "err"
  /\ l_last[PeerA].status = "NoConnection"
  /\ l_last[PeerA].command = "VerAck"
  /\ l_error[PeerA].kind = "ReceivedWrongMessageType"
  /\ l_out[PeerA] = <<>>

\* C3 as stated: for each of the 17 recognized commands, a task whose
\* address is NoConnection and that receives a well-framed message of a
\* command other than version returns the wrong-message-type error, and so
\* does a task whose address is Connecting on a command other than verack.
C3_EveryCommandWrongType ==
  [][\A a \in Addrs :
       ListenerIterates(a) =>
         LET fails(ty) ==
               /\ (ty \in MessageType /\ Unconnected(a) /\ ty # "Version")
                    => FailsWithWrongType(a)
               /\ (ty \in MessageType /\ connections[a] = "Connecting"
                      /\ ty # "VerAck")
                    => FailsWithWrongType(a)
         IN  fails(framed_command(l_in[a]))]_vars

\* C3, amended: a message out of turn that decodes (a verack while
\* NoConnection, a version while Connecting) makes the task return the
\* wrong-message-type error carrying the received and the awaited name; a
\* well-framed message of one of the 15 commands without a payload codec
\* makes it return the decode error (unknown type) instead; either way the
\* task ends, nothing is written and the map is unchanged.
C3_WrongTypeOrDecodeError ==
  [][\A a \in Addrs :
       ListenerIterates(a) =>
         LET fails(ty, error) ==
               (/\ ty \in MessageType
                /\ \/ Unconnected(a) /\ ty # "Version"
                   \/ connections[a] = "Connecting" /\ ty # "VerAck")
               => /\ l_pc'[a] = "err"
                  /\ l_out'[a] = l_out[a]
                  /\ connections' = connections
                  /\ IF ty \in {"Version", "VerAck"} /\ error = "none"
                       THEN l_error'[a] =
                              Error("ReceivedWrongMessageType",
                                    <<to_string(ty),
                                      to_string(IF Unconnected(a)
                                                  THEN "Version" ELSE "VerAck")>>)
                       ELSE l_error'[a] =
                              Error("DeserializeVersionResponse", <<error>>)
                  /\ ty \notin {"Version", "VerAck"} => error = "UnknownType"
         IN  fails(framed_command(l_in[a]), decode_error(l_in[a]))]_vars

\* a Connecting task that received a version and returned the
\* wrong-message-type error
C3_Witness ==
  /\ l_pc[PeerA] = "err"
  /\ l_last[PeerA].status = "Connecting"
  /\ l_last[PeerA].command = "Version"
  /\ l_error[PeerA] =
       Error("ReceivedWrongMessageType", <<to_string("Version"), to_string("VerAck")>>)

\* C4: once an address is Connected, every well-framed message of a
\* recognized command its task receives is accepted: the status stays
\* Connected, the task returns no error and goes on to the next read.
C4_ConnectedAcceptsEveryCommand ==
  [][\A a \in Addrs :
       (ListenerIterates(a) /\ connections[a] = "Connected"
          /\ framed_command(l_in[a]) \in MessageType)
       => /\ l_pc'[a] = "run"
          /\ l_error'[a] = NoError
          /\ connections'[a] = "Connected"]_vars

\* a Connected task that received a ping and returned an error
C4_Witness ==
  /\ l_last[PeerA].status = "Connected"
  /\ l_last[PeerA].command = "Ping"
  /\ connections[PeerA] = "Connected"
  /\ l_pc[PeerA] = "err"

(***************************************************************************)
(* Properties of the initiator                                             *)
(***************************************************************************)

\* the step from `t`'s task returning from fill_buf with bytes at hand to
\* its next fill_buf or its return
SenderResponds(t) ==
  /\ s_pc[t] \in {"version", "verack"} /\ s_net'[t] = s_net[t]
  /\ s_in[t] # <<>> /\ s_in'[t] = <<>>

\* the task of `t` moves on while its target has written nothing
SenderMovesInSilence(t) ==
  /\ s_in[t] = <<>> /\ s_net[t] = "open" /\ s_net'[t] = "open"
  /\ s_pc'[t] # s_pc[t]

\* the task of `t` as it is when run has returned Err(e)
SenderFailed(t) ==
  s_pc[t] = "err" /\ s_error[t] # NoError /\ s_info[t] = NoInfo

\* C5: a ConnectionInfo exists for a target only when its task has returned
\* Ok after it connected and wrote its version, read a response that decoded
\* as a version, wrote its verack and read a response that decoded as a
\* verack, and it carries the target's address; a task that failed has an
\* error and no ConnectionInfo; no phase runs twice and a task that has
\* returned does nothing more.
C5_InfoOnlyAfterBothResponses ==
  /\ [](\A t \in Targets :
          /\ (s_info[t] # NoInfo \/ s_pc[t] = "ok")
               => /\ s_pc[t] = "ok"
                  /\ s_info[t] = ConnectionInfo(t)
                  /\ s_error[t] = NoError
                  /\ s_resp[t] = <<"Version", "VerAck">>
                  /\ Len(s_out[t]) = 2
                  /\ is_frame_of(s_out[t][1], "Version")
                  /\ is_frame_of(s_out[t][2], "VerAck")
          /\ s_pc[t] = "err" => SenderFailed(t)
          /\ Len(s_resp[t]) <= 2 /\ Len(s_out[t]) <= 2)
  /\ [][\A t \in Targets :
          s_pc[t] \in {"ok", "err"}
          => /\ s_pc'[t] = s_pc[t] /\ s_out'[t] = s_out[t]
             /\ s_resp'[t] = s_resp[t] /\ s_info'[t] = s_info[t]
             /\ s_error'[t] = s_error[t]]_vars

\* a task that returned the ConnectionInfo of its target
C5_Witness ==
  /\ s_pc[TargetA] = "ok"
  /\ s_info[TargetA] = ConnectionInfo(TargetA)
  /\ s_resp[TargetA] = <<"Version", "VerAck">>

\* C6: a task whose target stays silent after the task's version fails with
\* VersionTimeout, one whose target stays silent after the task's verack
\* fails with VerackTimeout, and one whose connect does not return a stream
\* fails with ConnectionTimeout (or with the connect's own error); in each
\* case nothing is written (no verack before a version response) and no
\* ConnectionInfo is returned.
C6_SilenceTimesOut ==
  [][\A t \in Targets :
       /\ (SenderMovesInSilence(t) /\ s_pc[t] = "version")
            => /\ s_pc'[t] = "err"
               /\ s_error'[t] = Error("VersionTimeout", <<>>)
               /\ s_out'[t] = s_out[t] /\ Len(s_out[t]) = 1
               /\ s_info'[t] = NoInfo
       /\ (SenderMovesInSilence(t) /\ s_pc[t] = "verack")
            => /\ s_pc'[t] = "err"
               /\ s_error'[t] = Error("VerackTimeout", <<>>)
               /\ s_out'[t] = s_out[t]
               /\ s_info'[t] = NoInfo
       /\ (s_pc[t] = "start" /\ s_pc'[t] = "err")
            => /\ s_error'[t] \in {Error("ConnectionTimeout", <<>>),
                                   Error("TcpConnection", <<t>>)}
               /\ s_out'[t] = <<>>
               /\ s_info'[t] = NoInfo]_vars

\* a task that wrote its version, heard nothing and failed with VersionTimeout
C6_Witness ==
  /\ s_pc[TargetA] = "err"
  /\ s_error[TargetA] = Error("VersionTimeout", <<>>)
  /\ s_resp[TargetA] = <<>>
  /\ Len(s_out[TargetA]) = 1

\* the task of `t` has returned Err(ReceivedWrongMessageType(..)) without a
\* write
SenderFailsWithWrongType(t) ==
  /\ s_pc'[t] = "err"
  /\ s_error'[t].kind = "ReceivedWrongMessageType"
  /\ s_out'[t] = s_out[t]

\* the command a phase of sender::run awaits
awaited(pc) == IF pc = "version" THEN "Version" ELSE "VerAck"

\* C7 as stated: for each of the 17 recognized commands, a well-framed
\* response to the version whose command is not version makes sender::run
\* return the wrong-message-type error, and so does a response to the verack
\* whose command is not verack.
C7_EveryCommandWrongType ==
  [][\A t \in Targets :
       SenderResponds(t) =>
         LET fails(ty) ==
               (ty \in MessageType /\ ty # awaited(s_pc[t]))
               => SenderFailsWithWrongType(t)
         IN  fails(framed_command(s_in[t]))]_vars

\* C7, amended: a response that decodes to the other handshake message (a
\* verack for the version, a version for the verack) makes sender::run
\* return the wrong-message-type error carrying the received and the awaited
\* name; a well-framed response of one of the 15 commands without a payload
\* codec makes it return the phase's decode error (unknown type) instead;
\* either way nothing more is written and no ConnectionInfo is returned.
C7_WrongTypeOrDecodeError ==
  [][\A t \in Targets :
       SenderResponds(t) =>
         LET fails(ty, error) ==
               (ty \in MessageType /\ ty # awaited(s_pc[t]))
               => /\ s_pc'[t] = "err"
                  /\ s_out'[t] = s_out[t]
                  /\ s_info'[t] = NoInfo
                  /\ IF ty \in {"Version", "VerAck"} /\ error = "none"
                       THEN s_error'[t] =
                              Error("ReceivedWrongMessageType",
                                    <<to_string(ty), to_string(awaited(s_pc[t]))>>)
                       ELSE s_error'[t] =
                              Error(IF s_pc[t] = "version"
                                      THEN "DeserializeVersionResponse"
                                      ELSE "DeserializeVerackResponse",
                                    <<error>>)
                  /\ ty \notin {"Version", "VerAck"} => error = "UnknownType"
         IN  fails(framed_command(s_in[t]), decode_error(s_in[t]))]_vars

\* a task whose version was answered by a verack and that returned the
\* wrong-message-type error
C7_Witness ==
  /\ s_pc[TargetA] = "err"
  /\ s_resp[TargetA] = <<"VerAck">>
  /\ s_error[TargetA] =
       Error("ReceivedWrongMessageType", <<to_string("VerAck"), to_string("Version")>>)

(***************************************************************************)
(* Properties of the tasks together                                        *)
(***************************************************************************)

\* nothing of the responder task of `b` or of its map entry changes
ListenerUntouched(b) ==
  /\ connections'[b] = connections[b]
  /\ l_pc'[b] = l_pc[b] /\ l_status'[b] = l_status[b]
  /\ l_error'[b] = l_error[b] /\ l_out'[b] = l_out[b] /\ l_in'[b] = l_in[b]

\* nothing of the initiator task of `t` changes
SenderUntouched(t) ==
  /\ s_pc'[t] = s_pc[t] /\ s_error'[t] = s_error[t] /\ s_info'[t] = s_info[t]
  /\ s_out'[t] = s_out[t] /\ s_in'[t] = s_in[t]

wire_addr(addr) ==
  IF addr.fam = "V4" THEN addr
  ELSE IF is_ipv4_mapped_ipv6(addr.ip)
    THEN SocketAddr_new("V4", SubSeq(addr.ip, 13, 16), addr.port)
  ELSE SocketAddr_new("V6", addr.ip, addr.port)

\* the Version a serialized `version` is read back as
wire_version(version) ==
  [version EXCEPT !.receiver_address = wire_addr(@),
                  !.sender_address = wire_addr(@)]

\* a Message built with a payload and the command of that payload
matched(message) ==
  \/ message.payload.kind = "Version" /\ message.ty = "Version"
  \/ message.payload.kind = "VerAck" /\ message.ty = "VerAck"

\* the payload is one that serializes and is read back as itself
payload_round_trips(payload) ==
  payload.kind = "Version"
  => /\ Len(payload.version.user_agent) <= U8_MAX
     /\ wire_version(payload.version) = payload.version

\* C9 as stated: every Message built with a version payload and the
\* command version, or a verack payload and the command verack, under
\* either network, serializes, and the bytes deserialize to the Message.
C9_EnvelopeRoundTrip ==
  (codec.type = "Message" /\ matched(codec.input))
  => /\ codec.stage # "input" => codec.bytes.ok
     /\ codec.stage = "deserialized" => codec.output = Ok(codec.input)

\* C9, amended: the same for the Messages whose payload is a verack, or a
\* version with a user agent of at most 255 bytes whose addresses are IPv4,
\* or IPv6 not of the IPv4-mapped form with flowinfo 0 and scope id 0; a
\* version payload with other addresses comes back with each address as the
\* wire holds it, and one with a longer user agent does not serialize.
C9_EnvelopeRoundTripOfWirePayloads ==
  (codec.type = "Message" /\ matched(codec.input))
  => /\ (codec.stage # "input" /\ payload_round_trips(codec.input.payload))
          => codec.bytes.ok
     /\ (codec.stage = "deserialized" /\ payload_round_trips(codec.input.payload))
          => codec.output = Ok(codec.input)
     /\ (codec.stage = "deserialized" /\ codec.input.payload.kind = "Version")
          => codec.output =
               Ok([codec.input EXCEPT !.payload.version = wire_version(@)])
     /\ (codec.stage # "input" /\ codec.input.payload.kind = "Version"
           /\ Len(codec.input.payload.version.user_agent) > U8_MAX)
          => codec.bytes = Err("InvalidUserAgentLength")

\* a testnet version Message that was serialized and read back as itself
C9_Witness ==
  /\ codec.type = "Message" /\ codec.stage = "deserialized"
  /\ matched(codec.input)
  /\ codec.input.payload.kind = "Version"
  /\ codec.input.payload.version.sender_address.fam = "V6"
  /\ codec.input.magic_bytes = MAGIC_BYTES_TESTNET
  /\ codec.output = Ok(codec.input)

\* C10 as stated: every Version with a user agent of 0 to 255 bytes, any
\* field values and IPv4 or IPv6 addresses (the IPv4-mapped form included)
\* serializes, and the bytes deserialize to the Version.
C10_VersionRoundTrip ==
  (codec.type = "Version" /\ Len(codec.input.user_agent) <= U8_MAX)
  => /\ codec.stage # "input" => codec.bytes.ok
     /\ codec.stage = "deserialized" => codec.output = Ok(codec.input)

\* C10, amended: every Version with a user agent of 0 to 255 bytes
\* serializes, and the bytes deserialize to the Version with each address as
\* the wire holds it: to the Version itself when both addresses are IPv4, or
\* IPv6 not of the IPv4-mapped form with flowinfo 0 and scope id 0; an IPv6
\* address of the IPv4-mapped form comes back as the IPv4 address, and
\* flowinfo and scope id come back as 0.
C10_VersionRoundTripOfWireAddresses ==
  (codec.type = "Version" /\ Len(codec.input.user_agent) <= U8_MAX)
  => /\ codec.stage # "input" => codec.bytes.ok
     /\ codec.stage = "deserialized"
          => /\ codec.output = Ok(wire_version(codec.input))
             /\ wire_version(codec.input) = codec.input
                  => codec.output = Ok(codec.input)
             /\ (\E addr \in {codec.input.receiver_address,
                               codec.input.sender_address} :
                   addr.fam = "V6" /\ is_ipv4_mapped_ipv6(addr.ip))
                  => codec.output # Ok(codec.input)

\* a Version with a 255-byte user agent, negative numbers and an IPv6
\* address that was serialized and read back as itself
C10_Witness ==
  /\ codec.type = "Version" /\ codec.stage = "deserialized"
  /\ Len(codec.input.user_agent) = U8_MAX
  /\ codec.input.protocol_version < 0
  /\ codec.input.receiver_address.fam = "V6"
  /\ codec.input.sender_address.fam = "V4"
  /\ codec.output = Ok(codec.input)

\* the payload region of the bytes of a frame
payload_region(bytes) == Slice(bytes, BASE_SIZE, Len(bytes) - BASE_SIZE)

\* C11: Message::deserialize of an encoded message of which one bit inside
\* the payload region was changed, the header with its length and checksum
\* fields left as it was, fails with InvalidChecksum whatever the command:
\* it does not succeed, and it does not fail with an error of
\* Version::deserialize either, which the changed payload never reaches.
C11_PayloadBitFlipFailsChecksum ==
  codec.stage = "corrupted"
  => /\ codec.output = Err("InvalidChecksum")
     /\ SubSeq(codec.line.val, 1, BASE_SIZE) = SubSeq(codec.bytes.val, 1, BASE_SIZE)
     /\ Len(codec.line.val) = Len(codec.bytes.val)
     /\ payload_region(codec.line.val) # payload_region(codec.bytes.val)

\* a version message whose user agent was changed into bytes that are not
\* UTF-8, which Version::deserialize would refuse with its own error, was
\* refused for its checksum
C11_Witness ==
  /\ codec.stage = "corrupted"
  /\ codec.input.ty = "Version"
  /\ Version_deserialize(payload_region(codec.line.val))
       = Err("FailedToParseUserAgent")
  /\ codec.output = Err("InvalidChecksum")

\* the frame is well-framed with a valid checksum and its command field
\* holds a recognized name that has no payload codec
unsupported_frame(bytes) ==
  /\ Len(bytes) >= BASE_SIZE
  /\ command_of(Ok(bytes)) \in MessageType \ {"Version", "VerAck"}
  /\ bytes = wire_frame(SubSeq(bytes, 1, MAGIC_BYTES_LENGTH),
                        Slice(bytes, MAGIC_BYTES_LENGTH, MessageType_SIZE),
                        payload_region(bytes))

\* C12: Message::deserialize of a well-framed message with a valid checksum
\* whose command is a recognized name without a payload codec fails with
\* the unknown-type error, and this error is not the error it fails with
\* for a command field that matches no recognized name.  (An error is held
\* as its variant; the String of UnknownType is in both cases the text of
\* the command field.)
C12_UnsupportedDistinctFromUnrecognized ==
  (codec.type = "Frame" /\ codec.stage = "deserialized"
     /\ unsupported_frame(codec.input.data))
  => /\ codec.output = Err("UnknownType")
     /\ codec.output # Message_deserialize(UNKNOWN_COMMAND_FRAME)

\* a well-framed ping was refused with the error an unrecognized command
\* field is refused with
C12_Witness ==
  /\ codec.type = "Frame" /\ codec.stage = "deserialized"
  /\ codec.input.data = remote_frame("Ping", FALSE)
  /\ codec.output = Err("UnknownType")
  /\ codec.output = Message_deserialize(UNKNOWN_COMMAND_FRAME)
  /\ MessageType_deserialize(Slice(UNKNOWN_COMMAND_FRAME, MAGIC_BYTES_LENGTH,
                                   MessageType_SIZE)) = Err("UnknownType")

\* C13: for each of the 17 variants, serialize returns exactly 12 bytes, the
\* ASCII name followed only by zero bytes, and MessageType::deserialize of
\* those bytes returns the variant; for a name serialize's check returns
\* MessageTypeTooLong exactly when the name is longer than 12 bytes.
C13_CommandNameRoundTrip ==
  /\ (codec.type = "MessageType" /\ codec.stage # "input")
       => /\ codec.bytes.ok
          /\ Len(codec.bytes.val) = 12
          /\ \A i \in 1..12 :
               codec.bytes.val[i] =
                 IF i <= Len(to_string(codec.input.ty))
                   THEN to_string(codec.input.ty)[i] ELSE 0
          /\ \A i \in 1..Len(to_string(codec.input.ty)) :
               to_string(codec.input.ty)[i] \in 1..127
  /\ (codec.type = "MessageType" /\ codec.stage = "deserialized")
       => codec.output = Ok(codec.input.ty)
  /\ (codec.type = "Name" /\ codec.stage = "serialized")
       => /\ Len(codec.input.result) > 12
               => codec.bytes = Err("MessageTypeTooLong")
          /\ Len(codec.input.result) <= 12
               => codec.bytes = Ok(codec.input.result)

\* sendheaders, the longest name, was written as 11 bytes and a zero and read
\* back as SendHeaders
C13_Witness ==
  /\ codec.type = "MessageType" /\ codec.stage = "deserialized"
  /\ codec.input.ty = "SendHeaders"
  /\ Len(codec.bytes.val) = 12 /\ codec.bytes.val[11] = 115 /\ codec.bytes.val[12] = 0
  /\ codec.output = Ok("SendHeaders")

\* the command that goes with a payload variant
command_for(payload) == IF payload.kind = "Version" THEN "Version" ELSE "VerAck"

\* C14: in every Message, built by Message::build or returned by
\* Message::deserialize, the payload variant agrees with the command (a
\* Version payload under version, a VerAck payload under verack), and the
\* command field serialize writes is the name of the payload's variant.
C14_PayloadAgreesWithCommand ==
  codec.type = "Message"
  => /\ matched(codec.input)
     /\ (codec.stage # "input" /\ codec.bytes.ok)
          => Slice(codec.bytes.val, MAGIC_BYTES_LENGTH, MessageType_SIZE)
               = MessageType_serialize(command_for(codec.input.payload)).val
     /\ (codec.stage = "deserialized" /\ codec.output.ok)
          => matched(codec.output.val)

\* a Message built with a VerAck payload under the command version was
\* written with the command field version, and its bytes do not deserialize
C14_Witness ==
  /\ codec.type = "Message" /\ codec.stage = "deserialized"
  /\ codec.input = Message_build(Payload_VerAck(VerAck), "Version", FALSE)
  /\ Slice(codec.bytes.val, MAGIC_BYTES_LENGTH, MessageType_SIZE)
       = MessageType_serialize("Version").val
  /\ codec.output = Err("IoError")

\* the bytes serialize writes that are neither the user agent nor its
\* length byte: the fields before the length byte, start_height and relay
FIXED_FIELDS == UA_OFFSET + 4 + 1

\* C15 as stated: Version::serialize returns 100 + 1 + len(user_agent)
\* bytes for every user agent of 0 to 255 bytes.
C15_VersionLength100 ==
  (codec.type = "Version" /\ codec.stage # "input"
     /\ Len(codec.input.user_agent) <= U8_MAX)
  => /\ codec.bytes.ok
     /\ Len(codec.bytes.val) = Version_SIZE + 1 + Len(codec.input.user_agent)

\* C15, amended: Version::serialize returns 85 + 1 + len(user_agent) bytes
\* for every user agent of 0 to 255 bytes, whatever the other fields and
\* the addresses; the length is the 100 of Version::SIZE exactly when the
\* user agent has 14 bytes, as the default one has.
C15_VersionLength85 ==
  (codec.type = "Version" /\ codec.stage # "input"
     /\ Len(codec.input.user_agent) <= U8_MAX)
  => /\ codec.bytes.ok
     /\ FIXED_FIELDS = 85
     /\ Len(codec.bytes.val) = FIXED_FIELDS + 1 + Len(codec.input.user_agent)
     /\ Len(codec.bytes.val) = Version_SIZE
          <=> Len(codec.input.user_agent) = Len(DEFAULT_USER_AGENT)

\* a Version with an IPv4 and an IPv6 address and a user agent of 255 bytes
\* was serialized to 341 bytes
C15_Witness ==
  /\ codec.type = "Version" /\ codec.stage = "serialized"
  /\ codec.input.receiver_address.fam = "V4"
  /\ codec.input.sender_address.fam = "V6"
  /\ Len(codec.input.user_agent) = U8_MAX
  /\ codec.bytes.ok /\ Len(codec.bytes.val) = 341

(***************************************************************************)
(* Properties of the responder over several streams                        *)
(***************************************************************************)

\* C16: on every accepted stream, whatever streams the address had before,
\* the first iteration runs in the status NoConnection, and the task writes
\* its verack and sets the address to Connected only in an iteration that
\* receives a verack and follows, on the same stream, the iteration that
\* received a version in NoConnection and answered it with a version.
C16_StreamDrivenFromNoConnection ==
  [][\A a \in Addrs :
       ListenerIterates(a) =>
         /\ l_last[a] = NoIteration => l_status[a] = "NoConnection"
         /\ (\/ connections[a] # "Connected" /\ connections'[a] = "Connected"
             \/ /\ Len(l_out'[a]) = Len(l_out[a]) + 1
                /\ is_frame_of(l_out'[a][Len(l_out'[a])], "VerAck"))
            => /\ received(l_in[a]) = "VerAck"
               /\ l_last[a].status = "NoConnection"
               /\ l_last[a].command = "Version"
               /\ Len(l_out[a]) = 1
               /\ is_frame_of(l_out[a][1], "Version")]_vars

\* a stream of an address left Connecting by an earlier stream: its first
\* message was a verack, the task wrote a verack and nothing else, and the
\* address is Connected
C16_Witness ==
  /\ l_pc[PeerA] = "run"
  /\ l_last[PeerA].status = "Connecting"
  /\ l_last[PeerA].command = "VerAck"
  /\ Len(l_out[PeerA]) = 1
  /\ is_frame_of(l_out[PeerA][1], "VerAck")
  /\ connections[PeerA] = "Connected"

\* the place of a map entry in the order of the handshake
rank(status) ==
  CASE status = "Absent"       -> 0
    [] status = "NoConnection" -> 1
    [] status = "Connecting"   -> 2
    [] status = "Connected"    -> 3

\* C17: in the shared map, with the tasks of several addresses interleaved
\* and streams accepted again for an address whose task has ended, an entry
\* once inserted is never removed, the status stored for an address never
\* goes back to an earlier one, and an entry becomes Connected only from
\* Connecting, never straight from absent or NoConnection.
C17_StatusOnlyMovesForward ==
  [][\A a \in Addrs :
       /\ connections[a] # "Absent" => connections'[a] # "Absent"
       /\ rank(connections'[a]) >= rank(connections[a])
       /\ (connections'[a] = "Connected" /\ connections[a] # "Connected")
            => connections[a] = "Connecting"
       /\ (connections'[a] = "Connecting" /\ connections[a] # "Connecting")
            => Unconnected(a)]_vars

\* one address went from absent to Connecting on one stream and to
\* Connected on a later one, whose task has ended too; the other address,
\* left Connecting by a task that failed, has a new stream and still its
\* entry
C17_Witness ==
  /\ connections[PeerA] = "Connected"
  /\ l_pc[PeerA] = "ok"
  /\ Len(l_out[PeerA]) = 1
  /\ is_frame_of(l_out[PeerA][1], "VerAck")
  /\ connections[PeerB] = "Connecting"
  /\ l_pc[PeerB] = "run"
  /\ l_last[PeerB] = NoIteration

\* C18: an iteration of the responder loop that ends in an error (a failed
\* read, a failed decode, a message out of turn, a failed send of the
\* reply) leaves the map as it was at its start; the entry of an address
\* changes only in an iteration of its task that decoded a version or a
\* verack, wrote the reply to it in full and goes on without an error.
C18_ErrorKeepsStatus ==
  [][\A a \in Addrs :
       /\ (l_pc[a] = "run" /\ l_pc'[a] = "err")
            => /\ connections' = connections
               /\ l_error'[a].kind \in
                    {"FillBuffer", "DeserializeVersionResponse",
                     "ReceivedWrongMessageType", "SendVersion", "SendVerack"}
       /\ connections'[a] # connections[a]
            => /\ l_pc[a] = "run" /\ l_pc'[a] = "run"
               /\ l_error'[a] = NoError
               /\ received(l_in[a]) \in {"Version", "VerAck"}
               /\ Len(l_out'[a]) = Len(l_out[a]) + 1
               /\ is_frame_of(l_out'[a][Len(l_out'[a])], received(l_in[a]))]_vars

\* a task that received the verack of a peer that had gone, failed to send
\* its own, and left the address Connecting
C18_Witness ==
  /\ l_pc[PeerA] = "err"
  /\ l_error[PeerA].kind = "SendVerack"
  /\ l_last[PeerA].status = "Connecting"
  /\ l_last[PeerA].command = "VerAck"
  /\ connections[PeerA] = "Connecting"
  /\ Len(l_out[PeerA]) = 1

\* the task of `a` returns from a read of zero bytes: the peer has closed
\* its end and everything it wrote was read
ListenerReadsNothing(a) ==
  /\ l_pc[a] = "run" /\ l_in[a] = <<>> /\ l_net[a] = "closed"
  /\ <<l_pc[a], l_last[a], l_error[a], l_out[a], connections[a]>>'
       # <<l_pc[a], l_last[a], l_error[a], l_out[a], connections[a]>>

\* C19: when a read returns zero bytes, listener::run returns Ok whatever
\* the status of the address is, NoConnection and Connecting in the middle
\* of a handshake included; it writes nothing and leaves the map as it is.
C19_EmptyReadReturnsOk ==
  [][\A a \in Addrs :
       ListenerReadsNothing(a)
       => /\ l_pc'[a] = "ok"
          /\ l_error'[a] = NoError
          /\ l_out'[a] = l_out[a]
          /\ connections' = connections
          /\ l_last'[a].status = l_status[a]
          /\ l_status[a] = get_status(connections, a)]_vars

\* a task whose peer closed in the middle of the handshake, after the
\* versions were exchanged, returned Ok with the address left Connecting
C19_Witness ==
  /\ l_pc[PeerA] = "ok"
  /\ l_last[PeerA].status = "Connecting"
  /\ l_last[PeerA].command = "eof"
  /\ connections[PeerA] = "Connecting"
  /\ Len(l_out[PeerA]) = 1
  /\ is_frame_of(l_out[PeerA][1], "Version")

\* C20: a read-and-decode step of the responder loop or of an initiator
\* phase that finds two frames of the peer at hand and goes on processes
\* the first and leaves the second to the next read.
C20_OneFramePerRead ==
  [][/\ \A a \in Addrs :
          (ListenerIterates(a) /\ Len(l_in[a]) >= 2 /\ l_pc'[a] = "run")
          => /\ received(<<Head(l_in[a])>>) = received(l_in[a])
             /\ l_in'[a] = Tail(l_in[a])
     /\ \A t \in Targets :
          (SenderResponds(t) /\ Len(s_in[t]) >= 2 /\ s_pc'[t] = "verack")
          => /\ received(<<Head(s_in[t])>>) = received(s_in[t])
             /\ s_in'[t] = Tail(s_in[t])]_vars

\* a peer wrote its version and its verack back to back: the task took both
\* in one read, answered the version, and waits in Connecting for a verack
\* with nothing left to read
C20_Witness ==
  /\ l_pc[PeerA] = "run"
  /\ l_last[PeerA].frames = 2
  /\ l_last[PeerA].status = "NoConnection"
  /\ l_last[PeerA].command = "Version"
  /\ connections[PeerA] = "Connecting"
  /\ Len(l_out[PeerA]) = 1
  /\ l_in[PeerA] = <<>>
  /\ l_net[PeerA] = "open"

(***************************************************************************)
(* Properties of the order of writes and reads of the initiator            *)
(***************************************************************************)

\* C21: inside one attempt the initiator's writes and reads alternate: it
\* writes one version, reads one response, writes one verack and reads one
\* response.  It has never read more responses than it has written messages
\* nor written two messages without a read in between, its first write is a
\* version and its second a verack, the verack is written only in the step
\* in which the response to the version was read and found to decode as a
\* version, and there are at most one version and one verack.
C21_WritesAndReadsAlternate ==
  /\ [](\A t \in Targets :
          /\ Len(s_resp[t]) <= Len(s_out[t])
          /\ Len(s_out[t]) <= Len(s_resp[t]) + 1
          /\ Len(s_out[t]) <= 2
          /\ Len(s_out[t]) >= 1 => is_frame_of(s_out[t][1], "Version")
          /\ Len(s_out[t]) = 2
               => /\ is_frame_of(s_out[t][2], "VerAck")
                  /\ s_resp[t][1] = "Version")
  /\ [][\A t \in Targets :
          /\ Len(s_out'[t]) <= Len(s_out[t]) + 1
          /\ Len(s_resp'[t]) <= Len(s_resp[t]) + 1
          /\ SubSeq(s_out'[t], 1, Len(s_out[t])) = s_out[t]
          /\ SubSeq(s_resp'[t], 1, Len(s_resp[t])) = s_resp[t]
          /\ (Len(s_out[t]) = 1 /\ Len(s_out'[t]) = 2)
               => /\ s_pc[t] = "version" /\ s_pc'[t] = "verack"
                  /\ s_resp[t] = <<>> /\ s_resp'[t] = <<"Version">>
          /\ (Len(s_resp[t]) = 1 /\ Len(s_resp'[t]) = 2)
               => /\ s_pc[t] = "verack" /\ Len(s_out[t]) = 2
                  /\ s_out'[t] = s_out[t]]_vars

\* an attempt that wrote its verack after a version response and is waiting
\* for the response to it
C21_Witness ==
  /\ s_pc[TargetA] = "verack"
  /\ Len(s_out[TargetA]) = 2
  /\ s_resp[TargetA] = <<"Version">>
  /\ s_in[TargetA] # <<>>

(***************************************************************************)
(* Termination                                                             *)
(***************************************************************************)

\* sender::run has returned for `t`
SenderReturned(t) == s_pc[t] \in {"ok", "err"}

\* the peer of `a` is silent: it has written nothing unread and its end of
\* the stream is open
Silent(a) == l_in[a] = <<>> /\ l_net[a] = "open"

\* how far sender::run has come
phase(pc) ==
  IF pc \in {"none", "start"} THEN 0
  ELSE IF pc = "version" THEN 1
  ELSE IF pc = "verack" THEN 2
  ELSE 3

with_magic(magic, frame) == magic \o SubSeq(frame, MAGIC_BYTES_LENGTH + 1, Len(frame))

\* the only thing read is one frame, and its magic is not the one `testnet`
\* selects
foreign(frames, testnet) ==
  /\ Len(frames) = 1
  /\ Len(frames[1]) >= BASE_SIZE
  /\ Slice(frames[1], 0, MAGIC_BYTES_LENGTH)
       # (IF testnet THEN <<11, 17, 9, 7>> ELSE <<249, 190, 180, 217>>)

\* that frame would be the well-framed `ty` of the remote peer if it carried
\* the magic `testnet` selects
foreign_frame_of(frames, testnet, ty) ==
  /\ foreign(frames, testnet)
  /\ with_magic(magic_of(testnet), frames[1]) = remote_frame(ty, testnet)

\* C23: every message either task writes starts with 0B 11 09 07 when its
\* network flag says test network and with F9 BE B4 D9 otherwise.  A decoded
\* message records whatever four bytes the frame started with, and a frame
\* under a magic other than the task's own is handled as under its own: the
\* responder answers a version with its version and moves to Connecting and
\* answers a verack with its verack and moves to Connected; the initiator
\* takes a version as the response to its version and writes its verack, and
\* takes a verack as the response to its verack and returns its
\* ConnectionInfo.
C23_MagicRecordedNotChecked ==
  /\ [](/\ \A a \in Addrs : \A i \in 1 .. Len(l_out[a]) :
             Slice(l_out[a][i], 0, 4)
               = (IF network.listener THEN <<11, 17, 9, 7>>
                                      ELSE <<249, 190, 180, 217>>)
        /\ \A t \in Targets : \A i \in 1 .. Len(s_out[t]) :
             Slice(s_out[t][i], 0, 4)
               = (IF network.sender THEN <<11, 17, 9, 7>>
                                    ELSE <<249, 190, 180, 217>>))
  /\ [][\A a \in Addrs :
          (ListenerReads(a) /\ foreign(l_in[a], network.listener))
          => /\ LET recorded(message) ==
                      message.ok => message.val.magic_bytes
                                      = Slice(l_in[a][1], 0, MAGIC_BYTES_LENGTH)
                IN  recorded(Message_deserialize(l_in[a][1]))
             /\ (Unconnected(a)
                   /\ foreign_frame_of(l_in[a], network.listener, "Version"))
                  => /\ connections'[a] = "Connecting"
                     /\ l_pc'[a] = "run"
                     /\ Len(l_out'[a]) = Len(l_out[a]) + 1
                     /\ is_frame_of(l_out'[a][Len(l_out'[a])], "Version")
             /\ (connections[a] = "Connecting"
                   /\ foreign_frame_of(l_in[a], network.listener, "VerAck"))
                  => /\ connections'[a] = "Connected"
                     /\ l_pc'[a] = "run"
                     /\ Len(l_out'[a]) = Len(l_out[a]) + 1
                     /\ is_frame_of(l_out'[a][Len(l_out'[a])], "VerAck")]_vars
  /\ [][\A t \in Targets :
          (SenderResponds(t) /\ s_net[t] = "open"
             /\ foreign(s_in[t], network.sender))
          => /\ (s_pc[t] = "version"
                   /\ foreign_frame_of(s_in[t], network.sender, "Version"))
                  => /\ s_pc'[t] = "verack"
                     /\ Len(s_out'[t]) = 2
                     /\ is_frame_of(s_out'[t][2], "VerAck")
             /\ (s_pc[t] = "verack"
                   /\ foreign_frame_of(s_in[t], network.sender, "VerAck"))
                  => /\ s_pc'[t] = "ok"
                     /\ s_info'[t] = ConnectionInfo(t)]_vars

\* a responder of the test network that went through both steps with a peer
\* that writes under the main network's magic, and an initiator that took a
\* version as the response to its version and is about to read a verack under
\* a magic of neither network
C23_Witness ==
  /\ network.listener
  /\ connections[PeerA] = "Connected"
  /\ Len(l_out[PeerA]) = 2
  /\ l_in[PeerA] = <<remote_frame("Ping", FALSE)>>
  /\ s_pc[TargetA] = "verack"
  /\ s_resp[TargetA] = <<"Version">>
  /\ s_in[TargetA] = <<with_magic(ANOTHER_MAGIC, remote_frame("VerAck", TRUE))>>

(***************************************************************************)
(* The length of the user agent                                            *)
(***************************************************************************)

\* what serialize has returned for a version of user agent `user_agent`,
\* `header` bytes into the bytes it returned
user_agent_encoded(result, user_agent, header) ==
  IF Len(user_agent) > 255
    THEN result = Err("InvalidUserAgentLength") /\ "val" \notin DOMAIN result
    ELSE /\ result.ok
         /\ result.val[header + UA_OFFSET + 1] = Len(user_agent)
         /\ Slice(result.val, header + UA_OFFSET + 1, Len(user_agent)) = user_agent

\* C24: Version::serialize of a version whose user agent is longer than 255
\* bytes returns the error InvalidUserAgentLength, and Message::serialize of
\* a message with such a version as payload returns the same error and no
\* bytes; for a user agent of 0 to 255 bytes both succeed, and the byte in
\* front of the user agent is the user agent's length in bytes.
C24_UserAgentLengthFitsOneByte ==
  /\ (codec.type = "Version" /\ codec.stage = "serialized")
       => user_agent_encoded(codec.bytes, codec.input.user_agent, 0)
  /\ (codec.type = "Message" /\ codec.stage = "serialized"
        /\ codec.input.payload.kind = "Version")
       => user_agent_encoded(codec.bytes, codec.input.payload.version.user_agent,
                             BASE_SIZE)

\* a message whose version has a user agent of 256 bytes was serialized, to
\* the error
C24_Witness ==
  /\ codec.type = "Message" /\ codec.stage = "serialized"
  /\ codec.input.payload.kind = "Version"
  /\ Len(codec.input.payload.version.user_agent) = 256
  /\ codec.bytes = Err("InvalidUserAgentLength")

(***************************************************************************)
(* An initiator of this program against a responder of this program        *)
(***************************************************************************)

\* both tasks have returned with the handshake done
LoopbackDone ==
  /\ s_pc[TargetA] = "ok"
  /\ s_info[TargetA] = ConnectionInfo(TargetA)
  /\ s_resp[TargetA] = <<"Version", "VerAck">>
  /\ connections[PeerA] = "Connected"
  /\ l_pc[PeerA] = "ok"
  /\ l_error[PeerA] = NoError

\* C25: an initiator of this program connected to a responder of this
\* program whose map has no entry for it, over a stream that delivers every
\* message whole and in order, with no timeout: the run always comes to the
\* state in which sender::run has returned the ConnectionInfo of the
\* responder's address, the map holds Connected for the initiator's address
\* and listener::run, once the initiator has dropped the stream, has
\* returned Ok; it stays there, neither task ever returns an error, and no
\* run stops earlier with each side waiting for the other.
C25_LoopbackCompletes ==
  /\ <>[]LoopbackDone
  /\ [](s_pc[TargetA] # "err" /\ l_pc[PeerA] # "err")
  /\ [](l_pc[PeerA] = "ok" => l_net[PeerA] = "closed" /\ s_pc[TargetA] = "ok")
  /\ [](s_pc[TargetA] = "ok" => connections[PeerA] = "Connected")

\* the handshake is done on both sides and the responder task has returned
\* after the close
C25_Witness ==
  /\ LoopbackDone
  /\ l_net[PeerA] = "closed"
  /\ wire = [to_listener |-> 2, to_sender |-> 2]
  /\ network.listener # network.sender

(***************************************************************************)
(* The error of a failed connect                                           *)
(***************************************************************************)

\* sender::run has returned an error out of its connection phase: nothing
\* was written
ConnectFailed(t) == s_pc[t] = "err" /\ s_out[t] = <<>> /\ s_resp[t] = <<>>

\* the fields of the error value
fields(e) == {e.args[i] : i \in 1 .. Len(e.args)}

\* C26: when the connection phase of sender::run fails, by the connection
\* timeout or by an I/O error of the connect, the error it returns has the
\* target address among its fields.
C26_ConnectFailureNamesTarget ==
  \A t \in Targets :
    ConnectFailed(t)
      => /\ s_error[t].kind \in {"ConnectionTimeout", "TcpConnection"}
         /\ t \in fields(s_error[t])

\* the connect of a task ran into the connection timeout
C26_Witness ==
  /\ ConnectFailed(TargetA)
  /\ s_error[TargetA].kind = "ConnectionTimeout"

=============================================================================
